---- MODULE Spec2Model ----
(***************************************************************************)
(* A model of the background script of webScience.pageTransition           *)
(* (src/src/pageTransition.js): the per-tab webNavigation.onCommitted      *)
(* cache, the opener tab cache, the time-based and tab-based page visit    *)
(* caches, and sendUpdateToContentScript with its cache expiry.            *)
(*                                                                         *)
(* JavaScript objects that the code iterates with for-in are sequences of  *)
(* entries in insertion order; Maps that are only read by key are          *)
(* functions whose DOMAIN is the set of keys present.                      *)
(***************************************************************************)
EXTENDS Integers, Sequences, FiniteSets, TLC

\* ---------------------------------------------------------------- bounds
MaxTabs == 2
MaxPages == 2
MaxClicks == 2
MaxListeners == 2
MaxAddListenerCalls == 3
MaxTimeCachePages == 3

\* ------------------------------------------------------ program constants
TAB_ID_NONE == -1
TopFrame == 0
pageVisitTimeCacheExpiry == 1000
pageVisitTabCacheExpiry == 5000
clickCacheExpiry == 5000
tabRemovedExpiry == 10000

\* ------------------------------------------------------------ input sets
FrameIds == {TopFrame, 1}
Urls == {"https://a.test", "https://a.test/"}
PageIdOf(n) == CASE n = 1 -> "p1" [] n = 2 -> "p2" [] n = 3 -> "p3" [] OTHER -> "p4"
\* webNavigation transition type with its qualifiers
Transitions == { [transitionType |-> "link", transitionQualifiers |-> <<>>],
                 [transitionType |-> "typed", transitionQualifiers |-> <<"from_address_bar">>] }

VARIABLES
    now,                            \* Date.now()
    pagesStarted,                   \* how many page visits pageManager has started
    removedTabs,                    \* tabs for which tabs.onRemoved has fired
    webNavigationOnCommittedCache,  \* Map tabId -> onCommitted details
    pageVisitTimeCache,             \* object pageId -> {url, pageVisitStartTime, privateWindow}
    pageVisitTabCache,              \* Map tabId -> object pageId -> PageVisitCachedDetails
    openerTabCache,                 \* Map tabId -> {openerTabId, timeStamp}
    timeouts,                       \* pending setTimeout callbacks of tabs.onRemoved
    sent,                           \* messages sent to tabs by the last handler (none once time moves on)
    lastEvent,                      \* the event the last handler handled, with what it read
    committedPending,               \* history: per tab, the last top-level onCommitted event with
                                    \*   no top-level onDOMContentLoaded event after it
    openerSignals,                  \* history: per tab, the opener ids signalled since the tab's
                                    \*   last page load or cleanup
    preceding,                      \* history: committedPending and openerSignals of the last
                                    \*   event's tab as they were before that event
    cachesBefore,                   \* history: the caches as they were before the last event
    initialized,                    \* whether initialize() has been entered
    initializing,                   \* where the run of initialize() stands
    registrations,                  \* how many times initialize() registered the handlers
    addListenerCalls,               \* the calls of addListener, each with where it stands
    contentScripts,                 \* ids of the event content scripts now registered
    pageTransitionDataListeners,    \* Map listener -> record, in insertion order
    notified,                       \* listener calls made by the last handler
    lastUpdate,                     \* the last listener operation or message, with what was passed
    removedListeners                \* history: listeners passed to removeListener with no
                                    \*   addListener call for them running or begun since

code == << webNavigationOnCommittedCache, pageVisitTimeCache, pageVisitTabCache, openerTabCache,
           timeouts, sent, lastEvent >>

history == << committedPending, openerSignals, preceding, cachesBefore >>

\* The caches of the background script, as one value
CachesNow ==
    [ webNavigationOnCommittedCache |-> webNavigationOnCommittedCache,
      pageVisitTimeCache |-> pageVisitTimeCache,
      pageVisitTabCache |-> pageVisitTabCache,
      openerTabCache |-> openerTabCache ]

listening == << initialized, initializing, registrations, addListenerCalls, contentScripts,
                pageTransitionDataListeners, notified, lastUpdate, removedListeners >>

vars == << now, pagesStarted, removedTabs, code, history, listening >>

\* ------------------------------------------------- objects keyed by pageId
ObjKeys(obj) == { obj[i].pageId : i \in DOMAIN obj }

ObjHas(obj, pageId) == pageId \in ObjKeys(obj)

ObjGet(obj, pageId) == obj[CHOOSE i \in DOMAIN obj : obj[i].pageId = pageId]

\* obj[entry.pageId] = entry: a new key goes last, an existing key keeps its place
ObjSet(obj, entry) ==
    IF ObjHas(obj, entry.pageId)
    THEN [ i \in DOMAIN obj |-> IF obj[i].pageId = entry.pageId THEN entry ELSE obj[i] ]
    ELSE Append(obj, entry)

\* delete obj[k] for every k in pageIds
ObjDelete(obj, pageIds) ==
    LET keep(e) == e.pageId \notin pageIds
    IN SelectSeq(obj, keep)

\* ---------------------------------------------------- Maps keyed by tabId
MapSet(map, key, value) ==
    [ k \in (DOMAIN map) \cup {key} |-> IF k = key THEN value ELSE map[k] ]

MapDelete(map, key) ==
    [ k \in (DOMAIN map) \ {key} |-> map[k] ]

EmptyMap == [ k \in {} |-> 0 ]

\* What Map.get gives for a key that is not there
Undefined == [undefined |-> TRUE]

\* ------------------------------------------- expiry (lines 701-769)
\* The for-in scan for the most recent page: starts from "" and 0 and takes an
\* entry only when its start time is strictly greater than the best so far.
MostRecentPageId(obj) ==
    LET scan[i \in 0..Len(obj)] ==
            IF i = 0 THEN [pageId |-> "", pageVisitStartTime |-> 0]
            ELSE IF obj[i].pageVisitStartTime > scan[i - 1].pageVisitStartTime
                 THEN [pageId |-> obj[i].pageId, pageVisitStartTime |-> obj[i].pageVisitStartTime]
                 ELSE scan[i - 1]
    IN scan[Len(obj)].pageId

\* The same scan over the entries that are not in a private window
MostRecentNonPrivatePageId(obj) ==
    LET scan[i \in 0..Len(obj)] ==
            IF i = 0 THEN [pageId |-> "", pageVisitStartTime |-> 0]
            ELSE IF (~obj[i].privateWindow)
                    /\ obj[i].pageVisitStartTime > scan[i - 1].pageVisitStartTime
                 THEN [pageId |-> obj[i].pageId, pageVisitStartTime |-> obj[i].pageVisitStartTime]
                 ELSE scan[i - 1]
    IN scan[Len(obj)].pageId

\* expiredCachePageIds after the scan: the pages older than the expiry
ExpiredPageIds(obj, nowTimeStamp, expiry) ==
    { obj[i].pageId : i \in { j \in DOMAIN obj : (nowTimeStamp - obj[j].pageVisitStartTime) > expiry } }

\* Mutant: no page is removed from the time-based cache
ExpireTimeCache_KeepsAll(cache, nowTimeStamp) == cache

\* The time-based cache after its stale pages are removed
ExpireTimeCache(cache, nowTimeStamp) ==
    ObjDelete(cache, ExpiredPageIds(cache, nowTimeStamp, pageVisitTimeCacheExpiry)
                        \ {MostRecentPageId(cache), MostRecentNonPrivatePageId(cache)})

\* Mutant: no page is removed from a tab's page visits
ExpireTabPages_KeepsAll(pages, nowTimeStamp) == pages

\* A tab's page visits after its stale pages are removed
ExpireTabPages(pages, nowTimeStamp) ==
    ObjDelete(pages, ExpiredPageIds(pages, nowTimeStamp, pageVisitTabCacheExpiry)
                        \ {MostRecentPageId(pages)})

\* Math.max over the clicks of a page, starting from 0
MostRecentClickOnPage(clicks) ==
    LET scan[i \in 0..Len(clicks)] ==
            IF i = 0 THEN 0
            ELSE IF clicks[i] > scan[i - 1] THEN clicks[i] ELSE scan[i - 1]
    IN scan[Len(clicks)]

\* Mutant: stale clicks are removed and the most recent one is not put back
ExpireClicks_AllStaleDropped(clicks, nowTimeStamp) ==
    LET fresh(c) == (nowTimeStamp - c) <= clickCacheExpiry
    IN SelectSeq(clicks, fresh)

\* The click timestamps of a page after the stale clicks are removed
ExpireClicks(clicks, nowTimeStamp) ==
    LET fresh(c) == (nowTimeStamp - c) <= clickCacheExpiry
        clickTimeStamps == SelectSeq(clicks, fresh)
    IN IF (Len(clickTimeStamps) = 0) /\ (MostRecentClickOnPage(clicks) > 0)
       THEN <<MostRecentClickOnPage(clicks)>>
       ELSE clickTimeStamps

\* A tab's page visits after stale pages and then stale clicks are removed
ExpireTabCache(pages, nowTimeStamp) ==
    LET remaining == ExpireTabPages(pages, nowTimeStamp)
    IN [ i \in DOMAIN remaining |->
            [remaining[i] EXCEPT !.clickTimeStamps = ExpireClicks(@, nowTimeStamp)] ]

\* ------------------------------------------------------------ initial state
\* Every tab id an event may name
AllTabs == 1..(MaxTabs + 1)

NoSignals == [target |-> TAB_ID_NONE, created |-> TAB_ID_NONE, first |-> "none"]

NoPreceding == [committed |-> Undefined, signals |-> NoSignals]

\* The module as loaded (initialize = FALSE), or once a first run of initialize()
\* has returned and no event has been delivered yet (initialize = TRUE)
Constructed(initialize) ==
    /\ now = 0
    /\ pagesStarted = 0
    /\ removedTabs = {}
    /\ webNavigationOnCommittedCache = EmptyMap
    /\ pageVisitTimeCache = <<>>
    /\ pageVisitTabCache = EmptyMap
    /\ openerTabCache = EmptyMap
    /\ timeouts = {}
    /\ sent = <<>>
    /\ lastEvent = [type |-> "none"]
    /\ committedPending = [t \in AllTabs |-> Undefined]
    /\ openerSignals = [t \in AllTabs |-> NoSignals]
    /\ preceding = NoPreceding
    /\ cachesBefore = CachesNow
    /\ initialized = initialize
    /\ initializing = IF initialize THEN "done" ELSE "none"
    /\ registrations = IF initialize THEN 1 ELSE 0
    /\ addListenerCalls = <<>>
    /\ contentScripts = {}
    /\ pageTransitionDataListeners = <<>>
    /\ notified = <<>>
    /\ lastUpdate = [type |-> "none"]
    /\ removedListeners = {}

Init == Constructed(FALSE)

Initialized == Constructed(TRUE)

\* ------------------------------------------- sendUpdateToContentScript
\* Mutant: the opener details are read for a History API change too
OpenerTabDetails_AlsoHistory(tabId, isHistoryChange) ==
    IF tabId \in DOMAIN openerTabCache THEN openerTabCache[tabId] ELSE Undefined

\* openerTabDetails: what openerTabCache.get(tabId) gives, read only when this
\* is not a History API change
OpenerTabDetails(tabId, isHistoryChange) ==
    IF (~isHistoryChange) /\ (tabId \in DOMAIN openerTabCache)
    THEN openerTabCache[tabId]
    ELSE Undefined

\* Mutant: the page visits of the opener tab are never swapped in
CachedPageVisitsOwner_OwnTab(tabId, isHistoryChange) ==
    IF isHistoryChange THEN TAB_ID_NONE ELSE tabId

\* Mutant: a History API change gets the page visits of its own tab
CachedPageVisitsOwner_HistoryOwnTab(tabId, isHistoryChange) ==
    IF OpenerTabDetails(tabId, isHistoryChange) # Undefined
    THEN OpenerTabDetails(tabId, isHistoryChange).openerTabId
    ELSE tabId

\* The tab whose object in pageVisitTabCache the local cachedPageVisitsForTab
\* refers to; TAB_ID_NONE when it is the fresh { } of a History API change.
CachedPageVisitsOwner(tabId, isHistoryChange) ==
    IF isHistoryChange THEN TAB_ID_NONE
    ELSE IF OpenerTabDetails(tabId, isHistoryChange) # Undefined
         THEN OpenerTabDetails(tabId, isHistoryChange).openerTabId
         ELSE tabId

\* Mutant: the defaults of the opener fields are the tab itself and its event's time
BackgroundScriptEventUpdate_OwnTabAsOpener(tabId, url, timeStamp, transitionType, transitionQualifiers, isHistoryChange) ==
    LET openerTabDetails == OpenerTabDetails(tabId, isHistoryChange)
        isOpenedTab == openerTabDetails # Undefined
        owner == CachedPageVisitsOwner(tabId, isHistoryChange)
    IN [ tabId |-> tabId,
         type |-> "webScience.pageTransition.backgroundScriptEventUpdate",
         url |-> url,
         timeStamp |-> timeStamp,
         transitionType |-> transitionType,
         transitionQualifiers |-> transitionQualifiers,
         isHistoryChange |-> isHistoryChange,
         pageVisitTimeCache |-> pageVisitTimeCache,
         cachedPageVisitsForTab |->
             IF owner \in DOMAIN pageVisitTabCache THEN pageVisitTabCache[owner] ELSE <<>>,
         isOpenedTab |-> isOpenedTab,
         openerTabId |-> IF isOpenedTab THEN openerTabDetails.openerTabId ELSE tabId,
         tabOpeningTimeStamp |-> IF isOpenedTab THEN openerTabDetails.timeStamp ELSE timeStamp ]

\* The message handed to messaging.sendMessageToTab
BackgroundScriptEventUpdate(tabId, url, timeStamp, transitionType, transitionQualifiers, isHistoryChange) ==
    LET openerTabDetails == OpenerTabDetails(tabId, isHistoryChange)
        isOpenedTab == openerTabDetails # Undefined
        owner == CachedPageVisitsOwner(tabId, isHistoryChange)
    IN [ tabId |-> tabId,
         type |-> "webScience.pageTransition.backgroundScriptEventUpdate",
         url |-> url,
         timeStamp |-> timeStamp,
         transitionType |-> transitionType,
         transitionQualifiers |-> transitionQualifiers,
         isHistoryChange |-> isHistoryChange,
         pageVisitTimeCache |-> pageVisitTimeCache,
         cachedPageVisitsForTab |->
             IF owner \in DOMAIN pageVisitTabCache THEN pageVisitTabCache[owner] ELSE <<>>,
         isOpenedTab |-> isOpenedTab,
         openerTabId |-> IF isOpenedTab THEN openerTabDetails.openerTabId ELSE TAB_ID_NONE,
         tabOpeningTimeStamp |-> IF isOpenedTab THEN openerTabDetails.timeStamp ELSE 0 ]

\* Mutant: the opener details are read and never expired
OpenerTabCacheAfterUpdate_Kept(tabId, isHistoryChange) == openerTabCache

\* openerTabCache once the update is sent: the tab's opener details are expired
OpenerTabCacheAfterUpdate(tabId, isHistoryChange) ==
    IF OpenerTabDetails(tabId, isHistoryChange) # Undefined
    THEN MapDelete(openerTabCache, tabId)
    ELSE openerTabCache

\* Mutant: the message refers to the caches and is read once the handler has
\* returned, after the stale page visits and clicks are removed
SendMessageToTab_ReadLater(tabId, message) ==
    [message EXCEPT !.pageVisitTimeCache = ExpireTimeCache(@, now),
                    !.cachedPageVisitsForTab = ExpireTabCache(@, now)]

\* messaging.sendMessageToTab(tabId, message): the message as the tab receives
\* it, a copy taken during the call
SendMessageToTab(tabId, message) == message

SendUpdateToContentScript(tabId, url, timeStamp, transitionType, transitionQualifiers, isHistoryChange) ==
    LET owner == CachedPageVisitsOwner(tabId, isHistoryChange)
        nowTimeStamp == now
    IN /\ sent' = << SendMessageToTab(tabId,
                        BackgroundScriptEventUpdate(tabId, url, timeStamp, transitionType,
                                                    transitionQualifiers, isHistoryChange)) >>
       /\ openerTabCache' = OpenerTabCacheAfterUpdate(tabId, isHistoryChange)
       /\ pageVisitTimeCache' = ExpireTimeCache(pageVisitTimeCache, nowTimeStamp)
       /\ pageVisitTabCache' =
              IF owner \in DOMAIN pageVisitTabCache
              THEN [pageVisitTabCache EXCEPT ![owner] = ExpireTabCache(@, nowTimeStamp)]
              ELSE pageVisitTabCache

\* ----------------------------------------------------------------- handlers
\* Mutant: stale page visits are removed as soon as a page visit is added
OnPageVisitStart_Expires(pageId, url, pageVisitStartTime, privateWindow, tabId) ==
    /\ pageVisitTimeCache' = ExpireTimeCache(ObjSet(pageVisitTimeCache,
            [pageId |-> pageId, url |-> url, pageVisitStartTime |-> pageVisitStartTime,
             privateWindow |-> privateWindow]), now)
    /\ pageVisitTabCache' = MapSet(pageVisitTabCache, tabId,
            ExpireTabCache(
                ObjSet(IF tabId \in DOMAIN pageVisitTabCache THEN pageVisitTabCache[tabId] ELSE <<>>,
                       [pageId |-> pageId, url |-> url, pageVisitStartTime |-> pageVisitStartTime,
                        clickTimeStamps |-> <<>>]), now))
    /\ sent' = <<>>
    /\ lastEvent' = [type |-> "onPageVisitStart", pageId |-> pageId, tabId |-> tabId]
    /\ UNCHANGED << webNavigationOnCommittedCache, openerTabCache, timeouts >>

\* pageManager.onPageVisitStart listener
OnPageVisitStart(pageId, url, pageVisitStartTime, privateWindow, tabId) ==
    /\ pageVisitTimeCache' = ObjSet(pageVisitTimeCache,
            [pageId |-> pageId, url |-> url, pageVisitStartTime |-> pageVisitStartTime,
             privateWindow |-> privateWindow])
    /\ pageVisitTabCache' = MapSet(pageVisitTabCache, tabId,
            ObjSet(IF tabId \in DOMAIN pageVisitTabCache THEN pageVisitTabCache[tabId] ELSE <<>>,
                   [pageId |-> pageId, url |-> url, pageVisitStartTime |-> pageVisitStartTime,
                    clickTimeStamps |-> <<>>]))
    /\ sent' = <<>>
    /\ lastEvent' = [type |-> "onPageVisitStart", pageId |-> pageId, tabId |-> tabId]
    /\ UNCHANGED << webNavigationOnCommittedCache, openerTabCache, timeouts >>

\* Mutant: the details of subframe navigations are cached too
OnCommitted_AnyFrame(details) ==
    /\ webNavigationOnCommittedCache' =
            MapSet(webNavigationOnCommittedCache, details.tabId,
                   [url |-> details.url, transitionType |-> details.transitionType,
                    transitionQualifiers |-> details.transitionQualifiers])
    /\ sent' = <<>>
    /\ lastEvent' = [type |-> "onCommitted", details |-> details]
    /\ UNCHANGED << pageVisitTimeCache, pageVisitTabCache, openerTabCache, timeouts >>

\* Mutant: the details a tab already has are kept
OnCommitted_KeepsFirst(details) ==
    /\ webNavigationOnCommittedCache' =
            IF (details.frameId # TopFrame) \/ (details.tabId \in DOMAIN webNavigationOnCommittedCache)
            THEN webNavigationOnCommittedCache
            ELSE MapSet(webNavigationOnCommittedCache, details.tabId,
                        [url |-> details.url, transitionType |-> details.transitionType,
                         transitionQualifiers |-> details.transitionQualifiers])
    /\ sent' = <<>>
    /\ lastEvent' = [type |-> "onCommitted", details |-> details]
    /\ UNCHANGED << pageVisitTimeCache, pageVisitTabCache, openerTabCache, timeouts >>

\* webNavigation.onCommitted listener (the cached details keep the fields the code reads)
OnCommitted(details) ==
    /\ webNavigationOnCommittedCache' =
            IF details.frameId # TopFrame THEN webNavigationOnCommittedCache
            ELSE MapSet(webNavigationOnCommittedCache, details.tabId,
                        [url |-> details.url, transitionType |-> details.transitionType,
                         transitionQualifiers |-> details.transitionQualifiers])
    /\ sent' = <<>>
    /\ lastEvent' = [type |-> "onCommitted", details |-> details]
    /\ UNCHANGED << pageVisitTimeCache, pageVisitTabCache, openerTabCache, timeouts >>

\* Mutant: a tab with no cached details gets default details of a link transition
CommittedCacheGet_Default(tabId) ==
    IF tabId \in DOMAIN webNavigationOnCommittedCache
    THEN webNavigationOnCommittedCache[tabId]
    ELSE [url |-> "https://a.test/", transitionType |-> "link", transitionQualifiers |-> <<>>]

\* webNavigationOnCommittedCache.get(tabId)
CommittedCacheGet(tabId) ==
    IF tabId \in DOMAIN webNavigationOnCommittedCache
    THEN webNavigationOnCommittedCache[tabId]
    ELSE Undefined

\* Mutant: the URLs are not compared
UrlsDiffer_Never(url, committedUrl) == FALSE

\* A URL without its trailing slash
WithoutTrailingSlash(url) == IF url = "https://a.test/" THEN "https://a.test" ELSE url

\* Mutant: the URLs are compared after normalising the trailing slash
UrlsDiffer_Normalised(url, committedUrl) ==
    WithoutTrailingSlash(url) # WithoutTrailingSlash(committedUrl)

\* details.url !== webNavigationOnCommittedDetails.url
UrlsDiffer(url, committedUrl) == url # committedUrl

\* Mutant: the cached details are read and never expired
CommittedCacheAfterLoaded_Kept(tabId) == webNavigationOnCommittedCache

\* webNavigationOnCommittedCache once onDOMContentLoaded has read the tab's details
CommittedCacheAfterLoaded(tabId) == MapDelete(webNavigationOnCommittedCache, tabId)

\* Mutant: the cached details are expired only when the URLs match
OnDOMContentLoaded_ExpireOnMatch(details) ==
    LET webNavigationOnCommittedDetails == CommittedCacheGet(details.tabId)
    IN /\ lastEvent' = [type |-> "onDOMContentLoaded", details |-> details,
                        webNavigationOnCommittedDetails |->
                            IF details.frameId # TopFrame THEN Undefined
                            ELSE webNavigationOnCommittedDetails]
       /\ IF \/ details.frameId # TopFrame
             \/ webNavigationOnCommittedDetails = Undefined
             \/ UrlsDiffer(details.url, webNavigationOnCommittedDetails.url)
          THEN /\ sent' = <<>>
               /\ UNCHANGED << webNavigationOnCommittedCache, pageVisitTimeCache, pageVisitTabCache,
                               openerTabCache >>
          ELSE /\ webNavigationOnCommittedCache' = CommittedCacheAfterLoaded(details.tabId)
               /\ SendUpdateToContentScript(details.tabId, details.url, details.timeStamp,
                      webNavigationOnCommittedDetails.transitionType,
                      webNavigationOnCommittedDetails.transitionQualifiers,
                      FALSE)
       /\ UNCHANGED timeouts

\* Mutant: the URLs are compared after the opener details are expired and the
\* stale page visits removed, and only the message depends on them
OnDOMContentLoaded_ComparesLate(details) ==
    LET webNavigationOnCommittedDetails == CommittedCacheGet(details.tabId)
        owner == CachedPageVisitsOwner(details.tabId, FALSE)
    IN /\ lastEvent' = [type |-> "onDOMContentLoaded", details |-> details,
                        webNavigationOnCommittedDetails |->
                            IF details.frameId # TopFrame THEN Undefined
                            ELSE webNavigationOnCommittedDetails]
       /\ IF (details.frameId # TopFrame) \/ (webNavigationOnCommittedDetails = Undefined)
          THEN /\ sent' = <<>>
               /\ UNCHANGED << webNavigationOnCommittedCache, pageVisitTimeCache, pageVisitTabCache,
                               openerTabCache >>
          ELSE /\ webNavigationOnCommittedCache' = CommittedCacheAfterLoaded(details.tabId)
               /\ IF UrlsDiffer(details.url, webNavigationOnCommittedDetails.url)
                  THEN /\ sent' = <<>>
                       /\ openerTabCache' = OpenerTabCacheAfterUpdate(details.tabId, FALSE)
                       /\ pageVisitTimeCache' = ExpireTimeCache(pageVisitTimeCache, now)
                       /\ pageVisitTabCache' =
                              IF owner \in DOMAIN pageVisitTabCache
                              THEN [pageVisitTabCache EXCEPT ![owner] = ExpireTabCache(@, now)]
                              ELSE pageVisitTabCache
                  ELSE SendUpdateToContentScript(details.tabId, details.url, details.timeStamp,
                           webNavigationOnCommittedDetails.transitionType,
                           webNavigationOnCommittedDetails.transitionQualifiers,
                           FALSE)
       /\ UNCHANGED timeouts

\* webNavigation.onDOMContentLoaded listener
OnDOMContentLoaded(details) ==
    LET webNavigationOnCommittedDetails == CommittedCacheGet(details.tabId)
    IN /\ lastEvent' = [type |-> "onDOMContentLoaded", details |-> details,
                        webNavigationOnCommittedDetails |->
                            IF details.frameId # TopFrame THEN Undefined
                            ELSE webNavigationOnCommittedDetails]
       /\ IF (details.frameId # TopFrame) \/ (webNavigationOnCommittedDetails = Undefined)
          THEN /\ sent' = <<>>
               /\ UNCHANGED << webNavigationOnCommittedCache, pageVisitTimeCache, pageVisitTabCache,
                               openerTabCache >>
          ELSE /\ webNavigationOnCommittedCache' = CommittedCacheAfterLoaded(details.tabId)
               /\ IF UrlsDiffer(details.url, webNavigationOnCommittedDetails.url)
                  THEN /\ sent' = <<>>
                       /\ UNCHANGED << pageVisitTimeCache, pageVisitTabCache, openerTabCache >>
                  ELSE SendUpdateToContentScript(details.tabId, details.url, details.timeStamp,
                           webNavigationOnCommittedDetails.transitionType,
                           webNavigationOnCommittedDetails.transitionQualifiers,
                           FALSE)
       /\ UNCHANGED timeouts

\* Mutant: a History API change is reported only for a tab with cached onCommitted details
OnHistoryStateUpdated_NeedsCommitted(details) ==
    /\ lastEvent' = [type |-> "onHistoryStateUpdated", details |-> details]
    /\ IF (details.frameId # TopFrame) \/ (details.tabId \notin DOMAIN webNavigationOnCommittedCache)
       THEN /\ sent' = <<>>
            /\ UNCHANGED << pageVisitTimeCache, pageVisitTabCache, openerTabCache >>
       ELSE SendUpdateToContentScript(details.tabId, details.url, details.timeStamp,
                details.transitionType, details.transitionQualifiers, TRUE)
    /\ UNCHANGED << webNavigationOnCommittedCache, timeouts >>

\* Mutant: a History API change expires the tab's cached onCommitted details
OnHistoryStateUpdated_ExpiresCommitted(details) ==
    /\ lastEvent' = [type |-> "onHistoryStateUpdated", details |-> details]
    /\ IF details.frameId # TopFrame
       THEN /\ sent' = <<>>
            /\ UNCHANGED << webNavigationOnCommittedCache, pageVisitTimeCache, pageVisitTabCache,
                            openerTabCache >>
       ELSE /\ webNavigationOnCommittedCache' = MapDelete(webNavigationOnCommittedCache, details.tabId)
            /\ SendUpdateToContentScript(details.tabId, details.url, details.timeStamp,
                   details.transitionType, details.transitionQualifiers, TRUE)
    /\ UNCHANGED timeouts

\* webNavigation.onHistoryStateUpdated listener
OnHistoryStateUpdated(details) ==
    /\ lastEvent' = [type |-> "onHistoryStateUpdated", details |-> details]
    /\ IF details.frameId # TopFrame
       THEN /\ sent' = <<>>
            /\ UNCHANGED << pageVisitTimeCache, pageVisitTabCache, openerTabCache >>
       ELSE SendUpdateToContentScript(details.tabId, details.url, details.timeStamp,
                details.transitionType, details.transitionQualifiers, TRUE)
    /\ UNCHANGED << webNavigationOnCommittedCache, timeouts >>

\* Mutant: the new tab's own id is stored as its opener
OnCreatedNavigationTarget_OwnTab(details) ==
    /\ openerTabCache' = MapSet(openerTabCache, details.tabId,
            [openerTabId |-> details.tabId, timeStamp |-> details.timeStamp])
    /\ sent' = <<>>
    /\ lastEvent' = [type |-> "onCreatedNavigationTarget", details |-> details]
    /\ UNCHANGED << webNavigationOnCommittedCache, pageVisitTimeCache, pageVisitTabCache, timeouts >>

\* Mutant: the event is ignored when the tab already has opener details
OnCreatedNavigationTarget_FirstWriterWins(details) ==
    /\ openerTabCache' =
            IF details.tabId \in DOMAIN openerTabCache THEN openerTabCache
            ELSE MapSet(openerTabCache, details.tabId,
                        [openerTabId |-> details.sourceTabId, timeStamp |-> details.timeStamp])
    /\ sent' = <<>>
    /\ lastEvent' = [type |-> "onCreatedNavigationTarget", details |-> details]
    /\ UNCHANGED << webNavigationOnCommittedCache, pageVisitTimeCache, pageVisitTabCache, timeouts >>

\* webNavigation.onCreatedNavigationTarget listener
OnCreatedNavigationTarget(details) ==
    /\ openerTabCache' = MapSet(openerTabCache, details.tabId,
            [openerTabId |-> details.sourceTabId, timeStamp |-> details.timeStamp])
    /\ sent' = <<>>
    /\ lastEvent' = [type |-> "onCreatedNavigationTarget", details |-> details]
    /\ UNCHANGED << webNavigationOnCommittedCache, pageVisitTimeCache, pageVisitTabCache, timeouts >>

\* Mutant: tabs.onCreated writes over opener details the tab already has
OnCreatedWrites_OverExisting(tab) ==
    /\ "id" \in DOMAIN tab
    /\ tab.id # TAB_ID_NONE
    /\ "openerTabId" \in DOMAIN tab
    /\ tab.openerTabId # TAB_ID_NONE

\* Whether the tabs.onCreated listener goes on to write the opener tab cache
OnCreatedWrites(tab) ==
    /\ "id" \in DOMAIN tab
    /\ tab.id # TAB_ID_NONE
    /\ "openerTabId" \in DOMAIN tab
    /\ tab.openerTabId # TAB_ID_NONE
    /\ tab.id \notin DOMAIN openerTabCache

\* tabs.onCreated listener
OnCreated(tab) ==
    /\ openerTabCache' =
            IF OnCreatedWrites(tab)
            THEN MapSet(openerTabCache, tab.id, [openerTabId |-> tab.openerTabId, timeStamp |-> now])
            ELSE openerTabCache
    /\ sent' = <<>>
    /\ lastEvent' = [type |-> "onCreated", tab |-> tab]
    /\ UNCHANGED << webNavigationOnCommittedCache, pageVisitTimeCache, pageVisitTabCache, timeouts >>

\* Mutant: the tab's page visits and opener details are deleted at once
OnRemoved_DeletesNow(tabId) ==
    /\ timeouts' = timeouts \cup { [tabId |-> tabId, due |-> now + tabRemovedExpiry] }
    /\ pageVisitTabCache' = MapDelete(pageVisitTabCache, tabId)
    /\ openerTabCache' = MapDelete(openerTabCache, tabId)
    /\ sent' = <<>>
    /\ lastEvent' = [type |-> "onRemoved", tabId |-> tabId]
    /\ UNCHANGED << webNavigationOnCommittedCache, pageVisitTimeCache >>

\* tabs.onRemoved listener: setTimeout(..., tabRemovedExpiry)
OnRemoved(tabId) ==
    /\ timeouts' = timeouts \cup { [tabId |-> tabId, due |-> now + tabRemovedExpiry] }
    /\ sent' = <<>>
    /\ lastEvent' = [type |-> "onRemoved", tabId |-> tabId]
    /\ UNCHANGED << webNavigationOnCommittedCache, pageVisitTimeCache, pageVisitTabCache,
                    openerTabCache >>

\* Mutant: the callback deletes the tab's page visits and leaves its opener details
TabRemovedTimeout_KeepsOpener(timeout) ==
    /\ timeouts' = timeouts \ {timeout}
    /\ pageVisitTabCache' = MapDelete(pageVisitTabCache, timeout.tabId)
    /\ sent' = <<>>
    /\ lastEvent' = [type |-> "tabRemovedTimeout", tabId |-> timeout.tabId]
    /\ UNCHANGED << webNavigationOnCommittedCache, pageVisitTimeCache, openerTabCache >>

\* The callback that tabs.onRemoved passed to setTimeout
TabRemovedTimeout(timeout) ==
    /\ timeouts' = timeouts \ {timeout}
    /\ pageVisitTabCache' = MapDelete(pageVisitTabCache, timeout.tabId)
    /\ openerTabCache' = MapDelete(openerTabCache, timeout.tabId)
    /\ sent' = <<>>
    /\ lastEvent' = [type |-> "tabRemovedTimeout", tabId |-> timeout.tabId]
    /\ UNCHANGED << webNavigationOnCommittedCache, pageVisitTimeCache >>

\* Mutant: the reported clicks replace the clicks cached for the page
OnClickUpdate_Replaces(clickUpdateMessage, sender) ==
    /\ pageVisitTabCache' =
            IF ("tab" \in DOMAIN sender) /\ ("id" \in DOMAIN sender.tab)
               /\ (sender.tab.id \in DOMAIN pageVisitTabCache)
               /\ ObjHas(pageVisitTabCache[sender.tab.id], clickUpdateMessage.pageId)
            THEN [pageVisitTabCache EXCEPT ![sender.tab.id] =
                    ObjSet(@, [ObjGet(@, clickUpdateMessage.pageId) EXCEPT
                                  !.clickTimeStamps = clickUpdateMessage.clickTimeStamps])]
            ELSE pageVisitTabCache
    /\ sent' = <<>>
    /\ lastEvent' = [type |-> "contentScriptClickUpdate", message |-> clickUpdateMessage, sender |-> sender]
    /\ UNCHANGED << webNavigationOnCommittedCache, pageVisitTimeCache, openerTabCache, timeouts >>

\* messaging.onMessage listener for webScience.pageTransition.contentScriptClickUpdate
OnClickUpdate(clickUpdateMessage, sender) ==
    /\ pageVisitTabCache' =
            IF ("tab" \in DOMAIN sender) /\ ("id" \in DOMAIN sender.tab)
               /\ (sender.tab.id \in DOMAIN pageVisitTabCache)
               /\ ObjHas(pageVisitTabCache[sender.tab.id], clickUpdateMessage.pageId)
            THEN [pageVisitTabCache EXCEPT ![sender.tab.id] =
                    ObjSet(@, [ObjGet(@, clickUpdateMessage.pageId) EXCEPT
                                  !.clickTimeStamps = @ \o clickUpdateMessage.clickTimeStamps])]
            ELSE pageVisitTabCache
    /\ sent' = <<>>
    /\ lastEvent' = [type |-> "contentScriptClickUpdate", message |-> clickUpdateMessage, sender |-> sender]
    /\ UNCHANGED << webNavigationOnCommittedCache, pageVisitTimeCache, openerTabCache, timeouts >>

\* ---------------------------------------------------------------- listeners
\* A listener function, a key of pageTransitionDataListeners
Listeners == { [function |-> n] : n \in 1..MaxListeners }

\* pageTransitionDataListeners.get(key)
ListenersGet(map, key) ==
    IF \E i \in DOMAIN map : map[i].key = key
    THEN map[CHOOSE i \in DOMAIN map : map[i].key = key].value
    ELSE Undefined

\* pageTransitionDataListeners.set(key, value): a new key goes last, an existing
\* key keeps its place
ListenersSet(map, key, value) ==
    IF \E i \in DOMAIN map : map[i].key = key
    THEN [ i \in DOMAIN map |-> IF map[i].key = key THEN [key |-> key, value |-> value] ELSE map[i] ]
    ELSE Append(map, [key |-> key, value |-> value])

\* pageTransitionDataListeners.delete(key)
ListenersDelete(map, key) ==
    LET keep(entry) == entry.key # key
    IN SelectSeq(map, keep)

\* The host of a URL, and whether a match pattern set compiled from a list of
\* "*://host/*" patterns matches the URL
HostOf(url) == IF url \in {"https://a.test", "https://a.test/"} THEN "a.test" ELSE "b.test"

PatternOf(host) == IF host = "a.test" THEN "*://a.test/*" ELSE "*://b.test/*"

Matches(matchPatternSet, url) ==
    \E i \in DOMAIN matchPatternSet : matchPatternSet[i] = PatternOf(HostOf(url))

\* Mutant: every entry starts a run, whether or not the module is initialized
InitializeEnter_Reenters ==
    /\ initialized' = TRUE
    /\ initializing' = "pageManager"

\* initialize(), up to its first await: a second entry returns at once
InitializeEnter ==
    /\ initialized' = TRUE
    /\ initializing' = IF initialized THEN initializing ELSE "pageManager"

\* initialize(), resumed when pageManager.initialize() has resolved: registers
\* the click content script and awaits it
InitializePageManagerReady ==
    /\ initializing = "pageManager"
    /\ initializing' = "contentScripts"
    /\ UNCHANGED << initialized, registrations, addListenerCalls, contentScripts,
                    pageTransitionDataListeners >>
    /\ notified' = <<>>

\* initialize(), resumed when the click content script is registered: registers
\* the browser event and message handlers and returns
InitializeContentScriptReady ==
    /\ initializing = "contentScripts"
    /\ initializing' = "done"
    /\ registrations' = registrations + 1
    /\ UNCHANGED << initialized, addListenerCalls, contentScripts,
                    pageTransitionDataListeners >>
    /\ notified' = <<>>

\* addListener(listener, {matchPatterns, privateWindows}) up to `await
\* initialize()`. The call awaits the run of initialize() it started (first
\* TRUE), or the already resolved result of a second entry.
AddListener(listener, matchPatterns, privateWindows) ==
    /\ InitializeEnter
    /\ addListenerCalls' = Append(addListenerCalls,
            [listener |-> listener, matchPatterns |-> matchPatterns,
             privateWindows |-> privateWindows, first |-> ~initialized, at |-> "initialize"])
    /\ UNCHANGED << registrations, contentScripts, pageTransitionDataListeners >>
    /\ notified' = <<>>

\* addListener resumed after `await initialize()`: compiles the match pattern
\* set, asks for the event content script and awaits it
AddListenerInitialized(call) ==
    /\ addListenerCalls[call].at = "initialize"
    /\ addListenerCalls[call].first => (initializing = "done")
    /\ addListenerCalls' = [addListenerCalls EXCEPT ![call].at = "register"]
    /\ UNCHANGED << initialized, initializing, registrations, contentScripts,
                    pageTransitionDataListeners >>
    /\ notified' = <<>>

\* addListener resumed when the content script is registered: stores the record
AddListenerRegistered(call) ==
    /\ addListenerCalls[call].at = "register"
    /\ addListenerCalls' = [addListenerCalls EXCEPT ![call].at = "done"]
    /\ contentScripts' = contentScripts \cup {call}
    /\ pageTransitionDataListeners' =
            ListenersSet(pageTransitionDataListeners, addListenerCalls[call].listener,
                [matchPatternSet |-> addListenerCalls[call].matchPatterns,
                 privateWindows |-> addListenerCalls[call].privateWindows,
                 contentScript |-> call])
    /\ UNCHANGED << initialized, initializing, registrations >>
    /\ notified' = <<>>

\* removeListener(listener)
RemoveListener(listener) ==
    LET listenerRecord == ListenersGet(pageTransitionDataListeners, listener)
    IN /\ IF listenerRecord = Undefined
          THEN UNCHANGED << contentScripts, pageTransitionDataListeners >>
          ELSE /\ contentScripts' = contentScripts \ {listenerRecord.contentScript}
               /\ pageTransitionDataListeners' =
                      ListenersDelete(pageTransitionDataListeners, listenerRecord)
       /\ UNCHANGED << initialized, initializing, registrations, addListenerCalls >>
       /\ notified' = <<>>

\* The details a listener is called with
PageTransitionDataDetails(eventUpdateMessage, sender, listenerRecord) ==
    [ pageId |-> eventUpdateMessage.pageId,
      url |-> eventUpdateMessage.url,
      referrer |-> eventUpdateMessage.referrer,
      tabId |-> sender.tab.id,
      isHistoryChange |-> eventUpdateMessage.isHistoryChange,
      isOpenedTab |-> eventUpdateMessage.isOpenedTab,
      openerTabId |-> eventUpdateMessage.openerTabId,
      transitionType |-> eventUpdateMessage.transitionType,
      transitionQualifiers |-> eventUpdateMessage.transitionQualifiers,
      tabSourcePageId |-> eventUpdateMessage.tabSourcePageId,
      tabSourceUrl |-> eventUpdateMessage.tabSourceUrl,
      tabSourceClick |-> eventUpdateMessage.tabSourceClick,
      timeSourcePageId |-> IF listenerRecord.privateWindows
                           THEN eventUpdateMessage.timeSourcePageId
                           ELSE eventUpdateMessage.timeSourceNonPrivatePageId,
      timeSourceUrl |-> IF listenerRecord.privateWindows
                        THEN eventUpdateMessage.timeSourceUrl
                        ELSE eventUpdateMessage.timeSourceNonPrivateUrl ]

\* Mutant: no listener is skipped for a page in a private window
SkipsPrivate_Never(eventUpdateMessage, listenerRecord) == FALSE

\* Whether the handler skips a listener for a page in a private window
SkipsPrivate(eventUpdateMessage, listenerRecord) ==
    eventUpdateMessage.privateWindow /\ ~listenerRecord.privateWindows

\* messaging.onMessage listener for webScience.pageTransition.contentScriptEventUpdate:
\* the listener calls it makes, in the order of the Map
OnEventUpdate(eventUpdateMessage, sender) ==
    LET called(entry) == /\ ~SkipsPrivate(eventUpdateMessage, entry.value)
                         /\ Matches(entry.value.matchPatternSet, eventUpdateMessage.url)
        entries == SelectSeq(pageTransitionDataListeners, called)
    IN /\ notified' = [ i \in DOMAIN entries |->
                          [listener |-> entries[i].key,
                           details |-> PageTransitionDataDetails(eventUpdateMessage, sender,
                                                                 entries[i].value)] ]
       /\ UNCHANGED << initialized, initializing, registrations, addListenerCalls,
                       contentScripts, pageTransitionDataListeners >>

\* ------------------------------------------------------------- environment
\* An environment E bounds the inputs the browser, pageManager and the content
\* scripts deliver: E.tabs (tabs that navigate), E.opened (tabs an opener
\* signal may report as newly opened), E.openers (tab ids an opener signal may
\* name as the opener), E.frames, E.urls, E.subframeUrl, E.transitions,
\* E.timeStamps (details.timeStamp of navigation events), E.targetTimeStamps
\* (of onCreatedNavigationTarget), E.instants (values of Date.now()), E.pages
\* (how many page visits start), E.pageTabs, E.pageUrls, E.backdated, E.privateWindows,
\* E.clicks (how many click timestamps a page may hold), E.clickTabs (tabs whose
\* click content script reports clicks), E.removable (tabs that may be closed).
\* A tab id is unique to the browsing session: after tabs.onRemoved the browser
\* delivers no further event for that tab. The history variables are updated
\* here, from the events alone, never by the handlers.
Live(tabs) == tabs \ removedTabs

NextInstant(instants) == CHOOSE t \in instants : t > now /\ \A u \in instants : u > now => t <= u

PastInstants(instants) == { t \in instants : t <= now }

\* Date.now() moves on
Tick(E) ==
    /\ \E t \in E.instants : t > now
    /\ now' = NextInstant(E.instants)
    /\ sent' = <<>>
    /\ lastEvent' = [type |-> "tick"]
    /\ preceding' = NoPreceding
    /\ cachesBefore' = CachesNow
    /\ UNCHANGED << listening, pagesStarted, removedTabs, webNavigationOnCommittedCache, pageVisitTimeCache,
                    pageVisitTabCache, openerTabCache, timeouts, committedPending, openerSignals >>

\* pageVisitStartTime: now, or any earlier instant when E.backdated
PageStarts(E) == IF E.backdated THEN PastInstants(E.instants) ELSE {now}

PageVisitStart(E) ==
    /\ registrations > 0
    /\ \E url \in E.pageUrls, t \in PageStarts(E),
       privateWindow \in E.privateWindows, tabId \in Live(E.pageTabs) :
        /\ pagesStarted < E.pages
        /\ pagesStarted' = pagesStarted + 1
        /\ OnPageVisitStart(PageIdOf(pagesStarted + 1), url, t, privateWindow, tabId)
        /\ preceding' = NoPreceding
        /\ cachesBefore' = CachesNow
        /\ UNCHANGED << listening, now, removedTabs, committedPending, openerSignals >>

\* The frames and URLs of navigation events: any URL in the top frame, one in a subframe
FramesAndUrls(E) ==
    { [frameId |-> TopFrame, url |-> u] : u \in E.urls }
        \cup { [frameId |-> f, url |-> E.subframeUrl] : f \in E.frames \ {TopFrame} }

Committed(E) ==
    /\ registrations > 0
    /\ \E tabId \in Live(E.tabs), fu \in FramesAndUrls(E), tr \in E.transitions :
        LET details == [tabId |-> tabId, frameId |-> fu.frameId, url |-> fu.url,
                        transitionType |-> tr.transitionType,
                        transitionQualifiers |-> tr.transitionQualifiers]
        IN /\ OnCommitted(details)
           /\ committedPending' = IF fu.frameId = TopFrame
                                  THEN [committedPending EXCEPT ![tabId] = details]
                                  ELSE committedPending
           /\ preceding' = NoPreceding
           /\ cachesBefore' = CachesNow
           /\ UNCHANGED << listening, now, pagesStarted, removedTabs, openerSignals >>

\* Whether a top-level onDOMContentLoaded event completes the page load that the
\* tab's pending onCommitted event began
CompletesLoad(tabId, frameId, url) ==
    /\ frameId = TopFrame
    /\ committedPending[tabId] # Undefined
    /\ committedPending[tabId].url = url

DOMContentLoaded(E) ==
    /\ registrations > 0
    /\ \E tabId \in Live(E.tabs), fu \in FramesAndUrls(E), timeStamp \in E.timeStamps :
        /\ OnDOMContentLoaded([tabId |-> tabId, frameId |-> fu.frameId, url |-> fu.url,
                               timeStamp |-> timeStamp])
        /\ preceding' = [committed |-> committedPending[tabId], signals |-> openerSignals[tabId]]
        /\ committedPending' = IF fu.frameId = TopFrame
                               THEN [committedPending EXCEPT ![tabId] = Undefined]
                               ELSE committedPending
        /\ openerSignals' = IF CompletesLoad(tabId, fu.frameId, fu.url)
                            THEN [openerSignals EXCEPT ![tabId] = NoSignals]
                            ELSE openerSignals
        /\ cachesBefore' = CachesNow
        /\ UNCHANGED << listening, now, pagesStarted, removedTabs >>

HistoryStateUpdated(E) ==
    /\ registrations > 0
    /\ \E tabId \in Live(E.tabs), fu \in FramesAndUrls(E), timeStamp \in E.timeStamps,
       tr \in E.transitions :
        /\ OnHistoryStateUpdated([tabId |-> tabId, frameId |-> fu.frameId, url |-> fu.url,
                                  timeStamp |-> timeStamp,
                                  transitionType |-> tr.transitionType,
                                  transitionQualifiers |-> tr.transitionQualifiers])
        /\ preceding' = [committed |-> committedPending[tabId], signals |-> openerSignals[tabId]]
        /\ cachesBefore' = CachesNow
        /\ UNCHANGED << listening, now, pagesStarted, removedTabs, committedPending, openerSignals >>

\* openerSignals[tabId] once a signal of the given kind names openerTabId
Signalled(tabId, kind, openerTabId) ==
    [ target |-> IF kind = "target" THEN openerTabId ELSE openerSignals[tabId].target,
      created |-> IF kind = "created" THEN openerTabId ELSE openerSignals[tabId].created,
      first |-> IF openerSignals[tabId].first = "none" THEN kind ELSE openerSignals[tabId].first ]

CreatedNavigationTarget(E) ==
    /\ registrations > 0
    /\ \E tabId \in Live(E.opened), timeStamp \in E.targetTimeStamps :
        \E sourceTabId \in E.openers \ {tabId} :
            /\ OnCreatedNavigationTarget([tabId |-> tabId, sourceTabId |-> sourceTabId,
                                          timeStamp |-> timeStamp])
            /\ openerSignals' = [openerSignals EXCEPT ![tabId] = Signalled(tabId, "target", sourceTabId)]
            /\ preceding' = NoPreceding
            /\ cachesBefore' = CachesNow
            /\ UNCHANGED << listening, now, pagesStarted, removedTabs, committedPending >>

\* The tabs.Tab objects of tabs.onCreated: with an opener, with none, without the property
CreatedTabs(E) ==
    UNION { { [id |-> t, openerTabId |-> o] : o \in (E.openers \ {t}) \cup {TAB_ID_NONE} }
                \cup { [id |-> t] } : t \in Live(E.opened) }

Created(E) ==
    /\ registrations > 0
    /\ \E tab \in CreatedTabs(E) :
        /\ OnCreated(tab)
        /\ openerSignals' = IF ("openerTabId" \in DOMAIN tab) /\ (tab.openerTabId # TAB_ID_NONE)
                            THEN [openerSignals EXCEPT ![tab.id] = Signalled(tab.id, "created", tab.openerTabId)]
                            ELSE openerSignals
        /\ preceding' = NoPreceding
        /\ cachesBefore' = CachesNow
        /\ UNCHANGED << listening, now, pagesStarted, removedTabs, committedPending >>

\* A tab is closed, while Date.now() has an instant left at which the timeout
\* that the listener sets can fire
Removed(E) ==
    /\ registrations > 0
    /\ \E tabId \in Live(E.removable) :
        /\ \E t \in E.instants : t >= now + tabRemovedExpiry
        /\ removedTabs' = removedTabs \cup {tabId}
        /\ OnRemoved(tabId)
        /\ preceding' = NoPreceding
        /\ cachesBefore' = CachesNow
        /\ UNCHANGED << listening, now, pagesStarted, committedPending, openerSignals >>

TimeoutFires ==
    \E timeout \in timeouts :
        /\ now >= timeout.due
        /\ TabRemovedTimeout(timeout)
        /\ openerSignals' = [openerSignals EXCEPT ![timeout.tabId] = NoSignals]
        /\ preceding' = NoPreceding
        /\ cachesBefore' = CachesNow
        /\ UNCHANGED << listening, now, pagesStarted, removedTabs, committedPending >>

\* The click timestamps a content script may report for a page: one click, or an
\* earlier click and one now; none before the page visit started, none after
\* now, and no more than the page has room for. For a page the tab's cache does
\* not hold, one click now.
ClickBatches(E, tabId, pageId) ==
    LET known == (tabId \in DOMAIN pageVisitTabCache) /\ ObjHas(pageVisitTabCache[tabId], pageId)
        times == IF known
                 THEN { t \in PastInstants(E.instants) :
                          t >= ObjGet(pageVisitTabCache[tabId], pageId).pageVisitStartTime }
                 ELSE {now}
        room == IF known
                THEN E.clicks - Len(ObjGet(pageVisitTabCache[tabId], pageId).clickTimeStamps)
                ELSE 1
    IN { b \in { <<t>> : t \in times } \cup { <<t, now>> : t \in times } : Len(b) <= room }

\* A content script message from a tab, carrying any of the batches
ClickMessages(E, tabId, pageId) ==
    { [message |-> [pageId |-> pageId, clickTimeStamps |-> b], sender |-> [tab |-> [id |-> tabId]]]
        : b \in ClickBatches(E, tabId, pageId) }

\* A message of the same type from an extension page: its sender has no tab
TablessClickMessage(pageId) ==
    [message |-> [pageId |-> pageId, clickTimeStamps |-> <<now>>], sender |-> [id |-> "extension"]]

ClickUpdate(E) ==
    /\ registrations > 0
    /\ \E tabId \in Live(E.clickTabs), n \in 1..pagesStarted :
        \E m \in ClickMessages(E, tabId, PageIdOf(n)) \cup {TablessClickMessage(PageIdOf(n))} :
            /\ OnClickUpdate(m.message, m.sender)
            /\ preceding' = NoPreceding
            /\ cachesBefore' = CachesNow
            /\ UNCHANGED << listening, now, pagesStarted, removedTabs, committedPending, openerSignals >>

\* The options a study may pass to addListener
MatchPatternLists == { << "*://a.test/*" >>, << "*://b.test/*" >> }

\* Whether a call of addListener for the listener has yet to store its record
AddListenerRunning(listener) ==
    \E call \in DOMAIN addListenerCalls :
        /\ addListenerCalls[call].listener = listener
        /\ addListenerCalls[call].at # "done"

\* The study calls onPageTransitionData.addListener
AddListenerCalled ==
    \E listener \in Listeners, matchPatterns \in MatchPatternLists, privateWindows \in BOOLEAN :
        /\ Len(addListenerCalls) < MaxAddListenerCalls
        /\ AddListener(listener, matchPatterns, privateWindows)
        /\ lastUpdate' = [type |-> "addListener", listener |-> listener]
        /\ removedListeners' = removedListeners \ {listener}
        /\ UNCHANGED << now, pagesStarted, removedTabs, code, history >>

\* A promise initialize() awaits resolves
InitializeResumes ==
    /\ InitializePageManagerReady \/ InitializeContentScriptReady
    /\ lastUpdate' = [type |-> "initialize"]
    /\ UNCHANGED << removedListeners, now, pagesStarted, removedTabs, code, history >>

\* A promise a call of addListener awaits resolves
AddListenerResumes ==
    \E call \in DOMAIN addListenerCalls :
        /\ AddListenerInitialized(call) \/ AddListenerRegistered(call)
        /\ lastUpdate' = [type |-> "addListener", listener |-> addListenerCalls[call].listener]
        /\ UNCHANGED << removedListeners, now, pagesStarted, removedTabs, code, history >>

\* The study calls onPageTransitionData.removeListener
RemoveListenerCalled ==
    \E listener \in Listeners :
        /\ RemoveListener(listener)
        /\ lastUpdate' = [type |-> "removeListener", listener |-> listener,
                          listenerRecord |-> ListenersGet(pageTransitionDataListeners, listener)]
        /\ removedListeners' = IF AddListenerRunning(listener)
                               THEN removedListeners
                               ELSE removedListeners \cup {listener}
        /\ UNCHANGED << now, pagesStarted, removedTabs, code, history >>

\* The contentScriptEventUpdate messages of an event content script: for a page
\* in a private or a non-private window, of a URL some or no listener matches,
\* whose most recent earlier page is a private one
TimeSources ==
    { [timeSourcePageId |-> "p3", timeSourceUrl |-> "https://b.test/",
       timeSourceNonPrivatePageId |-> "p1", timeSourceNonPrivateUrl |-> "https://a.test"] }

EventUpdateMessages ==
    { [ pageId |-> "p4", url |-> url, referrer |-> "", isHistoryChange |-> FALSE,
        isOpenedTab |-> FALSE, openerTabId |-> TAB_ID_NONE, transitionType |-> "link",
        transitionQualifiers |-> <<>>, tabSourcePageId |-> "p1",
        tabSourceUrl |-> "https://a.test", tabSourceClick |-> FALSE,
        timeSourcePageId |-> ts.timeSourcePageId, timeSourceUrl |-> ts.timeSourceUrl,
        timeSourceNonPrivatePageId |-> ts.timeSourceNonPrivatePageId,
        timeSourceNonPrivateUrl |-> ts.timeSourceNonPrivateUrl,
        privateWindow |-> privateWindow ]
        : url \in {"https://a.test/", "https://b.test/"}, ts \in TimeSources,
          privateWindow \in BOOLEAN }

\* An event content script's message arrives, once the handler is registered
EventUpdate ==
    \E eventUpdateMessage \in EventUpdateMessages, tabId \in {1} :
        /\ registrations > 0
        /\ OnEventUpdate(eventUpdateMessage, [tab |-> [id |-> tabId]])
        /\ lastUpdate' = [type |-> "contentScriptEventUpdate", message |-> eventUpdateMessage,
                          sender |-> [tab |-> [id |-> tabId]]]
        /\ UNCHANGED << removedListeners, now, pagesStarted, removedTabs, code, history >>

\* ---------------------------------------------------------- specifications
\* Navigation and opener signals at one instant of Date.now(): every
\* interleaving of page visits, onCommitted, onDOMContentLoaded,
\* onHistoryStateUpdated, onCreatedNavigationTarget and tabs.onCreated over
\* MaxTabs tabs, the last of which may be reported as newly opened.
NavigationEnv ==
    [ tabs |-> 1..MaxTabs, opened |-> {MaxTabs}, openers |-> 1..(MaxTabs + 1),
      frames |-> FrameIds, urls |-> Urls, subframeUrl |-> "https://a.test/",
      transitions |-> Transitions, timeStamps |-> {50, 60}, targetTimeStamps |-> {100},
      instants |-> {0}, pages |-> MaxPages, pageTabs |-> 1..MaxTabs, pageUrls |-> {"https://a.test"},
      backdated |-> FALSE, privateWindows |-> {FALSE} ]

Next ==
    \/ PageVisitStart(NavigationEnv)
    \/ Committed(NavigationEnv)
    \/ DOMContentLoaded(NavigationEnv)
    \/ HistoryStateUpdated(NavigationEnv)
    \/ CreatedNavigationTarget(NavigationEnv)
    \/ Created(NavigationEnv)

Spec == Initialized /\ [][Next]_vars

\* Expiry: page visits and clicks in one tab and a moving Date.now(), with one
\* URL, one transition and top-level frames only. The instants put a page or a
\* click at, within and beyond each expiry.
Instants == {0, 1000, 2000, 7000, 8000}

ExpiryEnv ==
    [ tabs |-> {1}, opened |-> {}, openers |-> {},
      frames |-> {TopFrame}, urls |-> {"https://a.test/"}, subframeUrl |-> "https://a.test/",
      transitions |-> { [transitionType |-> "link", transitionQualifiers |-> <<>>] },
      timeStamps |-> {50}, targetTimeStamps |-> {100},
      instants |-> Instants, pages |-> MaxPages, pageTabs |-> {1},
      pageUrls |-> {"https://a.test"}, backdated |-> FALSE, privateWindows |-> BOOLEAN,
      clicks |-> MaxClicks, clickTabs |-> {1, 2} ]

NextExpiry ==
    \/ Tick(ExpiryEnv)
    \/ PageVisitStart(ExpiryEnv)
    \/ ClickUpdate(ExpiryEnv)
    \/ Committed(ExpiryEnv)
    \/ DOMContentLoaded(ExpiryEnv)
    \/ HistoryStateUpdated(ExpiryEnv)

SpecExpiry == Initialized /\ [][NextExpiry]_vars

\* The time-based cache: page visits of private and non-private windows in one
\* tab, enough of them for one to be neither the most recent page nor the most
\* recent non-private page, and a Date.now() that leaves all of them older than
\* pageVisitTimeCacheExpiry.
TimeCacheInstants == {0, 1000, 2000, 4000}

TimeCacheEnv ==
    [ tabs |-> {1}, opened |-> {}, openers |-> {},
      frames |-> {TopFrame}, urls |-> {"https://a.test/"}, subframeUrl |-> "https://a.test/",
      transitions |-> { [transitionType |-> "link", transitionQualifiers |-> <<>>] },
      timeStamps |-> {50}, targetTimeStamps |-> {100},
      instants |-> TimeCacheInstants, pages |-> MaxTimeCachePages, pageTabs |-> {1},
      pageUrls |-> {"https://a.test"}, backdated |-> FALSE, privateWindows |-> BOOLEAN ]

NextTimeCache ==
    \/ Tick(TimeCacheEnv)
    \/ PageVisitStart(TimeCacheEnv)
    \/ Committed(TimeCacheEnv)
    \/ DOMContentLoaded(TimeCacheEnv)
    \/ HistoryStateUpdated(TimeCacheEnv)

SpecTimeCache == Initialized /\ [][NextTimeCache]_vars

\* Closed tabs: two tabs, the second of which the first may open, page visits in
\* either, and a Date.now() that passes the tab expiry and then the delay of the
\* timeout that tabs.onRemoved sets.
RemovalInstants == {0, 1000, 7000, 11000}

RemovalEnv ==
    [ tabs |-> 1..MaxTabs, opened |-> {MaxTabs}, openers |-> {1}, removable |-> 1..MaxTabs,
      frames |-> {TopFrame}, urls |-> Urls, subframeUrl |-> "https://a.test/",
      transitions |-> { [transitionType |-> "link", transitionQualifiers |-> <<>>] },
      timeStamps |-> {50}, targetTimeStamps |-> {100},
      instants |-> RemovalInstants, pages |-> MaxPages, pageTabs |-> 1..MaxTabs,
      pageUrls |-> {"https://a.test"}, backdated |-> FALSE, privateWindows |-> {FALSE} ]

NextRemoval ==
    \/ Tick(RemovalEnv)
    \/ PageVisitStart(RemovalEnv)
    \/ Committed(RemovalEnv)
    \/ DOMContentLoaded(RemovalEnv)
    \/ HistoryStateUpdated(RemovalEnv)
    \/ CreatedNavigationTarget(RemovalEnv)
    \/ Removed(RemovalEnv)
    \/ TimeoutFires

SpecRemoval == Initialized /\ [][NextRemoval]_vars

\* The same, where Date.now() keeps moving while it has an instant left and a
\* timeout that is due is run by the event loop
SpecRemovalFair ==
    SpecRemoval /\ WF_vars(Tick(RemovalEnv)) /\ WF_vars(TimeoutFires)

\* Listeners: the study adds and removes listeners while initialize() and the
\* calls of addListener run, and event content scripts report page loads.
NextListeners ==
    \/ AddListenerCalled
    \/ InitializeResumes
    \/ AddListenerResumes
    \/ RemoveListenerCalled
    \/ EventUpdate

SpecListeners == Init /\ [][NextListeners]_vars

\* ------------------------------------------------------------------ claims
\* The last event was a top-level onDOMContentLoaded event
TopLevelLoaded ==
    /\ lastEvent.type = "onDOMContentLoaded"
    /\ lastEvent.details.frameId = TopFrame

\* ... whose URL is that of the most recent top-level onCommitted event of the
\* tab, with no other top-level onDOMContentLoaded event of the tab in between
LoadCompleted ==
    /\ TopLevelLoaded
    /\ preceding.committed # Undefined
    /\ preceding.committed.url = lastEvent.details.url

\* The last event was a top-level onHistoryStateUpdated event
TopLevelHistory ==
    /\ lastEvent.type = "onHistoryStateUpdated"
    /\ lastEvent.details.frameId = TopFrame

\* The last handler sent exactly one update, to the tab of its event
OneUpdateSent ==
    /\ Len(sent) = 1
    /\ sent[1].tabId = lastEvent.details.tabId

\* C1: a top-level content-loaded event whose URL equals that of the tab's most
\* recent top-level committed event (no other top-level content-loaded event of
\* the tab in between) sends exactly one update, with isHistoryChange = false;
\* a content-loaded event with no committed event since the tab's previous
\* content-loaded event sends none.
C1_OneUpdatePerCompletedLoad ==
    TopLevelLoaded =>
        /\ LoadCompleted => (OneUpdateSent /\ ~sent[1].isHistoryChange)
        /\ (preceding.committed = Undefined) => (sent = <<>>)

C1_Witness ==
    /\ LoadCompleted
    /\ pagesStarted > 0
    /\ OneUpdateSent
    /\ ~sent[1].isHistoryChange

\* C2: when the URL of the tab's cached committed details differs from the URL
\* of the top-level content-loaded event, no update is sent.
C2_MismatchSendsNothing ==
    ( /\ TopLevelLoaded
      /\ lastEvent.webNavigationOnCommittedDetails # Undefined
      /\ lastEvent.webNavigationOnCommittedDetails.url # lastEvent.details.url )
        => (sent = <<>>)

C2_Witness ==
    /\ TopLevelLoaded
    /\ lastEvent.webNavigationOnCommittedDetails # Undefined
    /\ lastEvent.webNavigationOnCommittedDetails.url # lastEvent.details.url
    /\ sent = <<>>

\* C3: a top-level content-loaded event on a tab that had no cached committed
\* details sends no update and changes no cache: the handler returns.
C3_NoEvidenceReturns ==
    ( /\ TopLevelLoaded
      /\ lastEvent.details.tabId \notin DOMAIN cachesBefore.webNavigationOnCommittedCache )
        => (sent = <<>> /\ CachesNow = cachesBefore)

C3_Witness ==
    /\ TopLevelLoaded
    /\ lastEvent.webNavigationOnCommittedDetails = Undefined
    /\ preceding.committed = Undefined
    /\ sent = <<>>

\* The scenario of C4 has just happened, with the given content-loaded URL: page
\* p1 of "https://a.test" started at 0 in tab 1, then committed(tab 1,
\* "https://a.test/", "link"), then content-loaded(tab 1, url, 50), and no
\* opener signal for tab 1.
C4_Scenario(url) ==
    /\ lastEvent.type = "onDOMContentLoaded"
    /\ lastEvent.details = [tabId |-> 1, frameId |-> TopFrame, url |-> url, timeStamp |-> 50]
    /\ preceding.committed # Undefined
    /\ preceding.committed.url = "https://a.test/"
    /\ preceding.committed.transitionType = "link"
    /\ preceding.signals = NoSignals
    /\ 1 \in DOMAIN pageVisitTabCache
    /\ ObjHas(pageVisitTabCache[1], "p1")
    /\ ObjGet(pageVisitTabCache[1], "p1").url = "https://a.test"
    /\ ObjGet(pageVisitTabCache[1], "p1").pageVisitStartTime = 0

C4_Dispatched ==
    /\ OneUpdateSent
    /\ ~sent[1].isHistoryChange
    /\ ~sent[1].isOpenedTab
    /\ sent[1].transitionType = "link"

\* C4 as stated: the scenario with content-loaded URL "https://a.test" sends an
\* update with isHistoryChange = false, isOpenedTab = false, transitionType = "link".
C4_AsStated == C4_Scenario("https://a.test") => C4_Dispatched

\* C4 as amended: the scenario sends that update when the content-loaded URL is
\* "https://a.test/", the URL of the committed event; with "https://a.test", which
\* differs from it, no update is sent.
C4_Amended ==
    /\ C4_Scenario("https://a.test/") => C4_Dispatched
    /\ C4_Scenario("https://a.test") => (sent = <<>>)

C4_Witness == C4_Scenario("https://a.test/") /\ C4_Dispatched

\* C5: a top-level history-state-updated event always sends one update, with
\* isHistoryChange = true and the event's own url, timeStamp, transitionType and
\* transitionQualifiers, whether or not the tab has cached committed details.
C5_HistoryAlwaysDispatches ==
    TopLevelHistory =>
        /\ OneUpdateSent
        /\ sent[1].isHistoryChange
        /\ sent[1].url = lastEvent.details.url
        /\ sent[1].timeStamp = lastEvent.details.timeStamp
        /\ sent[1].transitionType = lastEvent.details.transitionType
        /\ sent[1].transitionQualifiers = lastEvent.details.transitionQualifiers

C5_Witness ==
    /\ TopLevelHistory
    /\ preceding.committed = Undefined
    /\ lastEvent.details.tabId \notin DOMAIN webNavigationOnCommittedCache
    /\ OneUpdateSent
    /\ sent[1].isHistoryChange

\* C6: when a creation-target signal named S as the opener of tab N and the next
\* page load of N then completes, its update has isOpenedTab = true and
\* openerTabId = S.
C6_CreationTargetIsOpener ==
    (LoadCompleted /\ preceding.signals.target # TAB_ID_NONE) =>
        /\ OneUpdateSent
        /\ sent[1].isOpenedTab
        /\ sent[1].openerTabId = preceding.signals.target

C6_Witness ==
    /\ LoadCompleted
    /\ preceding.signals.target # TAB_ID_NONE
    /\ preceding.signals.created = TAB_ID_NONE
    /\ OneUpdateSent
    /\ sent[1].isOpenedTab
    /\ sent[1].openerTabId = preceding.signals.target

\* C7: when both a creation-target signal and a tabs.onCreated signal reported
\* the tab before its page load completes, the update carries the opener id of
\* the creation-target signal, whichever of the two arrived first.
C7_CreationTargetWins ==
    ( /\ LoadCompleted
      /\ preceding.signals.target # TAB_ID_NONE
      /\ preceding.signals.created # TAB_ID_NONE
      /\ preceding.signals.first \in {"target", "created"} )
        => (OneUpdateSent /\ sent[1].openerTabId = preceding.signals.target)

C7_Witness ==
    /\ LoadCompleted
    /\ preceding.signals.first = "created"
    /\ preceding.signals.target # TAB_ID_NONE
    /\ preceding.signals.created # TAB_ID_NONE
    /\ preceding.signals.target # preceding.signals.created
    /\ OneUpdateSent
    /\ sent[1].openerTabId = preceding.signals.target

\* C8: an update of a completed page load reports isOpenedTab = true exactly when
\* an opener signal reported the tab since the tab's previous completed page
\* load, and it leaves the tab without opener details; an update of a History
\* API change reports isOpenedTab = false.
C8_OpenerConsumedOnce ==
    (Len(sent) = 1) =>
        IF sent[1].isHistoryChange
        THEN ~sent[1].isOpenedTab
        ELSE /\ sent[1].isOpenedTab = (preceding.signals # NoSignals)
             /\ sent[1].tabId \notin DOMAIN openerTabCache

C8_Witness ==
    /\ LoadCompleted
    /\ OneUpdateSent
    /\ sent[1].isOpenedTab
    /\ preceding.signals # NoSignals
    /\ sent[1].tabId \notin DOMAIN openerTabCache

\* The last handler sent an update of a page load: its maintenance pass ran over
\* the time-based cache and over the page visits of one tab
PageLoadUpdateSent ==
    /\ Len(sent) = 1
    /\ ~sent[1].isHistoryChange

\* The tab whose page visits the pass of the last update ran over
MaintainedTab == IF sent[1].isOpenedTab THEN sent[1].openerTabId ELSE sent[1].tabId

\* C9 as stated: after the maintenance pass of an update, the time-based cache
\* still holds a page whose start time is the greatest among the pages it held
\* before the pass (those the update carries), whatever that start time is.
C9_MostRecentPageKept ==
    (Len(sent) = 1 /\ sent[1].pageVisitTimeCache # <<>>) =>
        \E i \in DOMAIN pageVisitTimeCache :
            \A j \in DOMAIN sent[1].pageVisitTimeCache :
                pageVisitTimeCache[i].pageVisitStartTime
                    >= sent[1].pageVisitTimeCache[j].pageVisitStartTime

\* What the claim expects of a click list after a pass at nowTimeStamp
ClicksWithinExpiry(clicks, nowTimeStamp) ==
    LET within(c) == (nowTimeStamp - c) <= clickCacheExpiry
    IN SelectSeq(clicks, within)

LatestClick(clicks) ==
    CHOOSE c \in { clicks[i] : i \in DOMAIN clicks } :
        \A i \in DOMAIN clicks : c >= clicks[i]

\* C10: after the maintenance pass of a page load's update, the click list of
\* every page the tab still holds is the list of its clicks within the click
\* expiry, in their order before the pass; when none is within the expiry and
\* the list was not empty, it is the single most recent click.
C10_ClicksAfterPass ==
    (PageLoadUpdateSent /\ MaintainedTab \in DOMAIN pageVisitTabCache) =>
        \A i \in DOMAIN pageVisitTabCache[MaintainedTab] :
            LET page == pageVisitTabCache[MaintainedTab][i]
                before == ObjGet(sent[1].cachedPageVisitsForTab, page.pageId).clickTimeStamps
            IN page.clickTimeStamps =
                   IF ClicksWithinExpiry(before, now) # <<>> \/ before = <<>>
                   THEN ClicksWithinExpiry(before, now)
                   ELSE << LatestClick(before) >>

\* A pass left a page with the earlier-listed, later-timed of its two stale clicks
C10_Witness ==
    /\ PageLoadUpdateSent
    /\ MaintainedTab \in DOMAIN pageVisitTabCache
    /\ \E i \in DOMAIN pageVisitTabCache[MaintainedTab] :
           LET page == pageVisitTabCache[MaintainedTab][i]
               before == ObjGet(sent[1].cachedPageVisitsForTab, page.pageId).clickTimeStamps
           IN /\ Len(before) = 2
              /\ before[1] > before[2]
              /\ ClicksWithinExpiry(before, now) = <<>>
              /\ page.clickTimeStamps = << before[1] >>

\* The details the onCommitted listener caches for an event
CachedDetails(details) ==
    [url |-> details.url, transitionType |-> details.transitionType,
     transitionQualifiers |-> details.transitionQualifiers]

\* C11: a tab has cached onCommitted details exactly when a top-level onCommitted
\* event of the tab has had no top-level onDOMContentLoaded event of the tab
\* after it, and they are those of the latest such event alone; after a
\* top-level onDOMContentLoaded event, matching or not, the tab has none.
C11_OneEntryUntilLoaded ==
    /\ DOMAIN webNavigationOnCommittedCache \subseteq AllTabs
    /\ \A t \in AllTabs :
           IF committedPending[t] = Undefined
           THEN t \notin DOMAIN webNavigationOnCommittedCache
           ELSE /\ t \in DOMAIN webNavigationOnCommittedCache
                /\ webNavigationOnCommittedCache[t] = CachedDetails(committedPending[t])
    /\ TopLevelLoaded => (lastEvent.details.tabId \notin DOMAIN webNavigationOnCommittedCache)

\* A content-loaded event with a URL other than the committed one has left its
\* tab without cached details, while another tab keeps its own
C11_Witness ==
    /\ TopLevelLoaded
    /\ preceding.committed # Undefined
    /\ preceding.committed.url # lastEvent.details.url
    /\ lastEvent.details.tabId \notin DOMAIN webNavigationOnCommittedCache
    /\ DOMAIN webNavigationOnCommittedCache # {}

\* The last handler handled a contentScriptEventUpdate message
EventUpdateHandled == lastUpdate.type = "contentScriptEventUpdate"

\* C12: a listener whose record has privateWindows = false is not called for an
\* update of a page in a private window, and is called with the update's
\* non-private time source; a listener whose record has privateWindows = true
\* is called with the update's unrestricted time source.
C12_PrivateWindowsRespected ==
    EventUpdateHandled =>
        \A i \in DOMAIN notified :
            LET listenerRecord == ListenersGet(pageTransitionDataListeners, notified[i].listener)
                update == lastUpdate.message
                details == notified[i].details
            IN /\ listenerRecord # Undefined
               /\ IF listenerRecord.privateWindows
                  THEN /\ details.timeSourcePageId = update.timeSourcePageId
                       /\ details.timeSourceUrl = update.timeSourceUrl
                  ELSE /\ ~update.privateWindow
                       /\ details.timeSourcePageId = update.timeSourceNonPrivatePageId
                       /\ details.timeSourceUrl = update.timeSourceNonPrivateUrl

\* One update of a page in a non-private window reached a listener of each
\* kind, and each got its own time source
C12_Witness ==
    /\ EventUpdateHandled
    /\ ~lastUpdate.message.privateWindow
    /\ Len(notified) = 2
    /\ notified[1].details.timeSourcePageId # notified[2].details.timeSourcePageId
    /\ \E i \in DOMAIN notified :
           /\ ~ListenersGet(pageTransitionDataListeners, notified[i].listener).privateWindows
           /\ notified[i].details.timeSourcePageId = lastUpdate.message.timeSourceNonPrivatePageId

\* C13 as stated: a listener passed to removeListener, with no addListener call
\* for it running or begun since, has no record in pageTransitionDataListeners
\* and is not called by the contentScriptEventUpdate handler.
C13_RemovedListenerGone ==
    \A listener \in removedListeners :
        /\ ListenersGet(pageTransitionDataListeners, listener) = Undefined
        /\ \A i \in DOMAIN notified : notified[i].listener # listener

\* C14: in every update sent, isOpenedTab = false implies openerTabId =
\* TAB_ID_NONE and tabOpeningTimeStamp = 0, and isHistoryChange = true implies
\* isOpenedTab = false.
C14_OpenerFieldsConsistent ==
    \A i \in DOMAIN sent :
        /\ (~sent[i].isOpenedTab) =>
               (sent[i].openerTabId = TAB_ID_NONE /\ sent[i].tabOpeningTimeStamp = 0)
        /\ sent[i].isHistoryChange => ~sent[i].isOpenedTab

\* An update of a History API change in a tab that has opener details
C14_Witness ==
    /\ TopLevelHistory
    /\ OneUpdateSent
    /\ sent[1].tabId \in DOMAIN openerTabCache
    /\ ~sent[1].isOpenedTab
    /\ sent[1].openerTabId = TAB_ID_NONE
    /\ sent[1].tabOpeningTimeStamp = 0


\* C15: an onCommitted, onDOMContentLoaded or onHistoryStateUpdated event of a
\* frame other than the top-level frame changes no cache and sends no update.
C15_SubframesIgnored ==
    ( /\ lastEvent.type \in {"onCommitted", "onDOMContentLoaded", "onHistoryStateUpdated"}
      /\ lastEvent.details.frameId # TopFrame )
        => (sent = <<>> /\ CachesNow = cachesBefore)

\* A subframe onCommitted event in a tab whose cached details have another URL
C15_Witness ==
    /\ lastEvent.type = "onCommitted"
    /\ lastEvent.details.frameId # TopFrame
    /\ lastEvent.details.tabId \in DOMAIN webNavigationOnCommittedCache
    /\ webNavigationOnCommittedCache[lastEvent.details.tabId].url # lastEvent.details.url
    /\ sent = <<>>

\* The page visits pageVisitTabCache holds for a tab, none when it has no entry
PageVisitsOf(tabId) ==
    IF tabId \in DOMAIN pageVisitTabCache THEN pageVisitTabCache[tabId] ELSE <<>>

\* The same, before the last event
PageVisitsBeforeOf(tabId) ==
    IF tabId \in DOMAIN cachesBefore.pageVisitTabCache
    THEN cachesBefore.pageVisitTabCache[tabId]
    ELSE <<>>

\* The page visits a page load's update is to carry: those of the opener tab
\* when the tab had opener details before the event, those of the tab otherwise
PageVisitsToCarry(tabId) ==
    IF tabId \in DOMAIN cachesBefore.openerTabCache
    THEN PageVisitsBeforeOf(cachesBefore.openerTabCache[tabId].openerTabId)
    ELSE PageVisitsBeforeOf(tabId)

\* C16: the update of a page load on tab T carries, as cachedPageVisitsForTab,
\* the page visits cached for the opener tab when openerTabCache had details
\* for T, and the page visits cached for T itself when it had none (both as
\* they were when the event arrived).
C16_PoolOfOpenerOrOwnTab ==
    PageLoadUpdateSent => (sent[1].cachedPageVisitsForTab = PageVisitsToCarry(sent[1].tabId))

\* An update of a page load in an opened tab that has page visits of its own
\* carries the different page visits of its opener
C16_Witness ==
    /\ LoadCompleted
    /\ OneUpdateSent
    /\ sent[1].isOpenedTab
    /\ sent[1].cachedPageVisitsForTab # <<>>
    /\ PageVisitsOf(sent[1].tabId) # <<>>
    /\ sent[1].cachedPageVisitsForTab = PageVisitsOf(sent[1].openerTabId)
    /\ sent[1].cachedPageVisitsForTab # PageVisitsOf(sent[1].tabId)

\* C17 as stated: the update of a History API change on tab T carries the page
\* visits cached for T itself.
C17_AsStated ==
    (Len(sent) = 1 /\ sent[1].isHistoryChange) =>
        (sent[1].cachedPageVisitsForTab = PageVisitsBeforeOf(sent[1].tabId))

\* C17 as amended: the update of a History API change carries no page visits as
\* cachedPageVisitsForTab, whatever is cached for its tab, and leaves the page
\* visits cached for every tab as they are.
C17_Amended ==
    (Len(sent) = 1 /\ sent[1].isHistoryChange) =>
        /\ sent[1].cachedPageVisitsForTab = <<>>
        /\ pageVisitTabCache = cachesBefore.pageVisitTabCache

C17_Witness ==
    /\ TopLevelHistory
    /\ OneUpdateSent
    /\ PageVisitsOf(sent[1].tabId) # <<>>
    /\ sent[1].cachedPageVisitsForTab = <<>>

\* C18: a History API update of a tab for which an opener signal arrived since
\* the tab's last completed page load reports isOpenedTab = false and leaves
\* the tab's opener details in openerTabCache; the tab's next completed page
\* load reports isOpenedTab = true and leaves the tab without opener details.
C18_HistoryKeepsOpener ==
    /\ ( TopLevelHistory /\ preceding.signals # NoSignals ) =>
            /\ OneUpdateSent
            /\ ~sent[1].isOpenedTab
            /\ sent[1].tabId \in DOMAIN openerTabCache
            /\ (preceding.signals.target # TAB_ID_NONE) =>
                   (openerTabCache[sent[1].tabId].openerTabId = preceding.signals.target)
    /\ ( LoadCompleted /\ preceding.signals # NoSignals ) =>
            /\ OneUpdateSent
            /\ sent[1].isOpenedTab
            /\ sent[1].tabId \notin DOMAIN openerTabCache

C18_Witness ==
    /\ TopLevelHistory
    /\ preceding.signals # NoSignals
    /\ OneUpdateSent
    /\ ~sent[1].isOpenedTab
    /\ sent[1].tabId \in DOMAIN openerTabCache

\* The last event was an opener signal for a tab that had opener details
SignalOverExisting(type, tabId) ==
    /\ lastEvent.type = type
    /\ tabId \in DOMAIN cachesBefore.openerTabCache

\* C19 as stated: an onCreatedNavigationTarget or tabs.onCreated event for a tab
\* that has opener details leaves openerTabCache unchanged.
C19_AsStated ==
    /\ (lastEvent.type = "onCreatedNavigationTarget"
          /\ SignalOverExisting("onCreatedNavigationTarget", lastEvent.details.tabId))
        => (openerTabCache = cachesBefore.openerTabCache)
    /\ (lastEvent.type = "onCreated"
          /\ SignalOverExisting("onCreated", lastEvent.tab.id))
        => (openerTabCache = cachesBefore.openerTabCache)

\* C19 as amended: a tabs.onCreated event for a tab that has opener details
\* leaves openerTabCache unchanged; an onCreatedNavigationTarget event always
\* makes its own source tab and timeStamp the tab's opener details, whatever
\* details the tab had, and changes no other tab's.
C19_Amended ==
    /\ (lastEvent.type = "onCreated"
          /\ SignalOverExisting("onCreated", lastEvent.tab.id))
        => (openerTabCache = cachesBefore.openerTabCache)
    /\ (lastEvent.type = "onCreatedNavigationTarget") =>
           openerTabCache = MapSet(cachesBefore.openerTabCache, lastEvent.details.tabId,
                                   [openerTabId |-> lastEvent.details.sourceTabId,
                                    timeStamp |-> lastEvent.details.timeStamp])

\* An onCreatedNavigationTarget event has replaced the opener that an earlier
\* tabs.onCreated event gave the tab
C19_Witness ==
    /\ lastEvent.type = "onCreatedNavigationTarget"
    /\ openerSignals[lastEvent.details.tabId].first = "created"
    /\ openerSignals[lastEvent.details.tabId].created # lastEvent.details.sourceTabId
    /\ openerTabCache[lastEvent.details.tabId].openerTabId = lastEvent.details.sourceTabId

\* C20: the update a handler sends carries pageVisitTimeCache, and for a page
\* load the page visits of the opener or own tab, as they were when the event
\* arrived, before the handler removed stale page visits and clicks.
C20_UpdateCarriesCachesBeforeExpiry ==
    (Len(sent) = 1) =>
        /\ sent[1].pageVisitTimeCache = cachesBefore.pageVisitTimeCache
        /\ (~sent[1].isHistoryChange) =>
               (sent[1].cachedPageVisitsForTab = PageVisitsToCarry(sent[1].tabId))

\* An update carries a page visit that pageVisitTimeCache has lost, a page visit
\* that the tab's cache has lost, and a click that a page kept by the tab's
\* cache has lost
C20_Witness ==
    /\ PageLoadUpdateSent
    /\ \E i \in DOMAIN sent[1].pageVisitTimeCache :
           ~ObjHas(pageVisitTimeCache, sent[1].pageVisitTimeCache[i].pageId)
    /\ \E i \in DOMAIN sent[1].cachedPageVisitsForTab :
           ~ObjHas(PageVisitsOf(MaintainedTab), sent[1].cachedPageVisitsForTab[i].pageId)
    /\ \E i \in DOMAIN sent[1].cachedPageVisitsForTab :
           LET page == sent[1].cachedPageVisitsForTab[i]
           IN /\ ObjHas(PageVisitsOf(MaintainedTab), page.pageId)
              /\ Len(ObjGet(PageVisitsOf(MaintainedTab), page.pageId).clickTimeStamps)
                     < Len(page.clickTimeStamps)

\* Whether every entry of one object is an entry of the other, unchanged
EntriesKept(before, after) ==
    \A i \in DOMAIN before : \E j \in DOMAIN after : after[j] = before[i]

\* C21: a page visit start leaves in pageVisitTimeCache and in the tab's page
\* visits every entry they held, in their order, followed by the new page (in
\* the tab's page visits with no clicks), and changes no other tab's page
\* visits; and no event whose handler sends no update removes an entry from
\* pageVisitTimeCache.
C21_VisitStartOnlyAdds ==
    /\ (lastEvent.type = "onPageVisitStart") =>
           /\ Len(pageVisitTimeCache) = Len(cachesBefore.pageVisitTimeCache) + 1
           /\ SubSeq(pageVisitTimeCache, 1, Len(cachesBefore.pageVisitTimeCache))
                  = cachesBefore.pageVisitTimeCache
           /\ pageVisitTimeCache[Len(pageVisitTimeCache)].pageId = lastEvent.pageId
           /\ LET after == PageVisitsOf(lastEvent.tabId)
                  before == PageVisitsBeforeOf(lastEvent.tabId)
              IN /\ Len(after) = Len(before) + 1
                 /\ SubSeq(after, 1, Len(before)) = before
                 /\ after[Len(after)].pageId = lastEvent.pageId
                 /\ after[Len(after)].clickTimeStamps = <<>>
           /\ \A t \in AllTabs \ {lastEvent.tabId} : PageVisitsOf(t) = PageVisitsBeforeOf(t)
    /\ (sent = <<>>) => EntriesKept(cachesBefore.pageVisitTimeCache, pageVisitTimeCache)

\* A page visit has started while both caches held a page older than either
\* expiry, and that page is still in both
C21_Witness ==
    /\ lastEvent.type = "onPageVisitStart"
    /\ \E i \in DOMAIN pageVisitTimeCache :
           /\ pageVisitTimeCache[i].pageId # lastEvent.pageId
           /\ now - pageVisitTimeCache[i].pageVisitStartTime > pageVisitTabCacheExpiry
           /\ ObjHas(PageVisitsOf(lastEvent.tabId), pageVisitTimeCache[i].pageId)

\* C22 as stated: after the maintenance pass of an update, pageVisitTimeCache
\* still holds a page of a non-private window whose start time is the greatest
\* among the pages of non-private windows it held before the pass (those the
\* update carries), whatever that start time is and whatever pages of private
\* windows it holds.
C22_MostRecentNonPrivateKept ==
    (Len(sent) = 1) =>
        LET before == sent[1].pageVisitTimeCache
            nonPrivate == { j \in DOMAIN before : ~before[j].privateWindow }
        IN (nonPrivate # {}) =>
               \E i \in DOMAIN pageVisitTimeCache :
                   /\ ~pageVisitTimeCache[i].privateWindow
                   /\ \A j \in nonPrivate :
                          pageVisitTimeCache[i].pageVisitStartTime >= before[j].pageVisitStartTime

\* The entries of pageVisitTimeCache older than the expiry at the present instant
StaleInTimeCache ==
    { i \in DOMAIN pageVisitTimeCache :
        now - pageVisitTimeCache[i].pageVisitStartTime > pageVisitTimeCacheExpiry }

\* C23: after the maintenance pass of an update, every entry of
\* pageVisitTimeCache older than pageVisitTimeCacheExpiry has the greatest start
\* time of the pages the cache held before the pass, or is non-private and has
\* the greatest start time of the non-private pages it held; and at most two
\* such entries remain.
C23_StaleOnlyIfMostRecent ==
    (Len(sent) = 1) =>
        LET before == sent[1].pageVisitTimeCache
        IN /\ \A i \in StaleInTimeCache :
                  \/ \A j \in DOMAIN before :
                         pageVisitTimeCache[i].pageVisitStartTime >= before[j].pageVisitStartTime
                  \/ /\ ~pageVisitTimeCache[i].privateWindow
                     /\ \A j \in DOMAIN before :
                            (~before[j].privateWindow) =>
                                pageVisitTimeCache[i].pageVisitStartTime
                                    >= before[j].pageVisitStartTime
           /\ Cardinality(StaleInTimeCache) <= 2

\* A pass over three stale pages has removed one and left two: a private page,
\* the most recent, and an older non-private page
C23_Witness ==
    /\ Len(sent) = 1
    /\ Len(sent[1].pageVisitTimeCache) = 3
    /\ Len(pageVisitTimeCache) = 2
    /\ Cardinality(StaleInTimeCache) = 2
    /\ \E i, j \in DOMAIN pageVisitTimeCache :
           /\ pageVisitTimeCache[i].privateWindow
           /\ ~pageVisitTimeCache[j].privateWindow
           /\ pageVisitTimeCache[i].pageVisitStartTime > pageVisitTimeCache[j].pageVisitStartTime

\* C24 as stated: after the maintenance pass of a page load's update over a
\* tab's page visits, the tab still holds a page whose start time is the
\* greatest among the pages it held before the pass, whatever that start time
\* is, and holds no other page older than pageVisitTabCacheExpiry.
C24_MostRecentInTabKept ==
    (PageLoadUpdateSent /\ sent[1].cachedPageVisitsForTab # <<>>) =>
        LET before == sent[1].cachedPageVisitsForTab
            after == PageVisitsOf(MaintainedTab)
            greatest(page) ==
                \A j \in DOMAIN before : page.pageVisitStartTime >= before[j].pageVisitStartTime
        IN /\ \E i \in DOMAIN after : greatest(after[i])
           /\ \A i \in DOMAIN after :
                  (now - after[i].pageVisitStartTime > pageVisitTabCacheExpiry)
                      => greatest(after[i])

\* Whether some page of the page visits is older than pageVisitTabCacheExpiry and
\* not a page of the greatest start time among them
StaleBesidesMostRecent(pages) ==
    \E i \in DOMAIN pages :
        /\ now - pages[i].pageVisitStartTime > pageVisitTabCacheExpiry
        /\ \E j \in DOMAIN pages : pages[j].pageVisitStartTime > pages[i].pageVisitStartTime

\* C25 as stated: after every update sent to tab T, of a page load or of a
\* History API change, for an opened tab or not, the page visits cached for T
\* itself hold no page older than pageVisitTabCacheExpiry other than the most
\* recent one.
C25_AsStated ==
    (Len(sent) = 1) => ~StaleBesidesMostRecent(PageVisitsOf(sent[1].tabId))

\* C25 as amended: after the update of a page load, the page visits the update
\* carried (those of the opener tab when T had opener details, those of T
\* otherwise) hold no page older than pageVisitTabCacheExpiry other than the
\* most recent one; the page visits cached for T itself are left as they were
\* by the update of a History API change and by the update of a page load in
\* an opened tab.
C25_Amended ==
    (Len(sent) = 1) =>
        /\ (~sent[1].isHistoryChange) => ~StaleBesidesMostRecent(PageVisitsOf(MaintainedTab))
        /\ (sent[1].isHistoryChange \/ sent[1].isOpenedTab) =>
               (PageVisitsOf(sent[1].tabId) = PageVisitsBeforeOf(sent[1].tabId))

\* The update of a page load in an opened tab has left the tab's own page
\* visits with a stale page besides the most recent one
C25_Witness ==
    /\ PageLoadUpdateSent
    /\ sent[1].isOpenedTab
    /\ StaleBesidesMostRecent(PageVisitsOf(sent[1].tabId))
    /\ ~StaleBesidesMostRecent(PageVisitsOf(MaintainedTab))

\* The last event was a click update message
ClickUpdateHandled == lastEvent.type = "contentScriptClickUpdate"

\* Whether the tab of the last click update message had, before the message, a
\* record of the message's page among its page visits
ClickedPageWasCached ==
    /\ "tab" \in DOMAIN lastEvent.sender
    /\ ObjHas(PageVisitsBeforeOf(lastEvent.sender.tab.id), lastEvent.message.pageId)

\* C26: a click update message from tab T for a page that T's page visits hold
\* appends the message's timestamps, in their order, to that page's click list
\* and changes nothing else; a message from a tab with no page visits cached,
\* or for a page the tab's page visits do not hold, changes no cache. No
\* update is sent either way.
C26_ClicksAppendedOrDropped ==
    ClickUpdateHandled =>
        /\ sent = <<>>
        /\ IF ClickedPageWasCached
           THEN LET tabId == lastEvent.sender.tab.id
                    before == PageVisitsBeforeOf(tabId)
                    after == PageVisitsOf(tabId)
                IN /\ DOMAIN after = DOMAIN before
                   /\ \A i \in DOMAIN before :
                          after[i] =
                              IF before[i].pageId = lastEvent.message.pageId
                              THEN [before[i] EXCEPT !.clickTimeStamps =
                                       @ \o lastEvent.message.clickTimeStamps]
                              ELSE before[i]
                   /\ \A t \in AllTabs \ {tabId} : PageVisitsOf(t) = PageVisitsBeforeOf(t)
                   /\ pageVisitTimeCache = cachesBefore.pageVisitTimeCache
                   /\ openerTabCache = cachesBefore.openerTabCache
                   /\ webNavigationOnCommittedCache = cachesBefore.webNavigationOnCommittedCache
           ELSE CachesNow = cachesBefore

\* A click earlier than the one the page already had has been appended after it
C26_Witness ==
    /\ ClickUpdateHandled
    /\ ClickedPageWasCached
    /\ Len(lastEvent.message.clickTimeStamps) = 1
    /\ LET clicks == ObjGet(PageVisitsOf(lastEvent.sender.tab.id),
                            lastEvent.message.pageId).clickTimeStamps
       IN /\ Len(clicks) = 2
          /\ clicks[2] = lastEvent.message.clickTimeStamps[1]
          /\ clicks[1] > clicks[2]

\* The tabs that were removed and whose timeout has not run yet
AwaitingCleanup == { timeout.tabId : timeout \in timeouts }

\* C27: a tabs.onRemoved event sends nothing and changes no cache, only setting
\* a timeout due tabRemovedExpiry later; while that timeout has not run, no
\* event takes away the removed tab's page visits or its opener details; and
\* the update of a page load in a tab that the removed tab opened carries the
\* removed tab's page visits.
C27_RemovedTabReadableUntilCleanup ==
    /\ (lastEvent.type = "onRemoved") =>
           /\ sent = <<>>
           /\ CachesNow = cachesBefore
           /\ [tabId |-> lastEvent.tabId, due |-> now + tabRemovedExpiry] \in timeouts
    /\ \A t \in AwaitingCleanup :
           /\ (t \in DOMAIN cachesBefore.pageVisitTabCache) => (t \in DOMAIN pageVisitTabCache)
           /\ (t \in DOMAIN cachesBefore.openerTabCache) =>
                  /\ t \in DOMAIN openerTabCache
                  /\ openerTabCache[t] = cachesBefore.openerTabCache[t]
    /\ (PageLoadUpdateSent /\ sent[1].isOpenedTab /\ sent[1].openerTabId \in AwaitingCleanup) =>
           (sent[1].cachedPageVisitsForTab = PageVisitsBeforeOf(sent[1].openerTabId))

\* A page load in an opened tab, after its opener was removed and before the
\* opener's timeout has run, got the opener's page visits
C27_Witness ==
    /\ PageLoadUpdateSent
    /\ sent[1].isOpenedTab
    /\ sent[1].openerTabId \in removedTabs
    /\ sent[1].openerTabId \in AwaitingCleanup
    /\ sent[1].cachedPageVisitsForTab # <<>>
    /\ sent[1].cachedPageVisitsForTab = PageVisitsBeforeOf(sent[1].openerTabId)

\* The last event took away the opener details of tab t
OpenerDetailsGone(t) ==
    /\ t \in DOMAIN cachesBefore.openerTabCache
    /\ t \notin DOMAIN openerTabCache

\* C28: the opener details of a tab go away in two ways only, by the update of
\* a page load in that tab or by the timeout of the tab's removal; and once
\* the tab is removed they are eventually deleted, together with the tab's
\* page visits, given that a timeout that is due is eventually run.
C28_OpenerDetailsEventuallyRemoved ==
    /\ [](\A t \in AllTabs :
             OpenerDetailsGone(t) =>
                 \/ PageLoadUpdateSent /\ sent[1].tabId = t /\ sent[1].isOpenedTab
                 \/ lastEvent.type = "tabRemovedTimeout" /\ lastEvent.tabId = t)
    /\ \A t \in AllTabs :
           (t \in removedTabs /\ t \in DOMAIN openerTabCache)
               ~> (t \notin DOMAIN openerTabCache /\ t \notin DOMAIN pageVisitTabCache)

\* The timeout of a removed tab has deleted the opener details the tab never
\* used, and its page visits
C28_Witness ==
    /\ lastEvent.type = "tabRemovedTimeout"
    /\ lastEvent.tabId \in removedTabs
    /\ OpenerDetailsGone(lastEvent.tabId)
    /\ lastEvent.tabId \in DOMAIN cachesBefore.pageVisitTabCache
    /\ lastEvent.tabId \notin DOMAIN pageVisitTabCache

\* C29: the update of a page load carries the transitionType and
\* transitionQualifiers of the tab's most recent top-level onCommitted event
\* and the url and timeStamp of the top-level onDOMContentLoaded event that
\* caused it.
C29_CarriesLatestCommitted ==
    PageLoadUpdateSent =>
        /\ TopLevelLoaded
        /\ sent[1].tabId = lastEvent.details.tabId
        /\ sent[1].url = lastEvent.details.url
        /\ sent[1].timeStamp = lastEvent.details.timeStamp
        /\ preceding.committed # Undefined
        /\ sent[1].transitionType = preceding.committed.transitionType
        /\ sent[1].transitionQualifiers = preceding.committed.transitionQualifiers

\* An update carries a typed transition with its qualifier and the later of
\* the two timeStamps
C29_Witness ==
    /\ PageLoadUpdateSent
    /\ LoadCompleted
    /\ preceding.committed.transitionType = "typed"
    /\ sent[1].transitionType = "typed"
    /\ sent[1].transitionQualifiers = <<"from_address_bar">>
    /\ sent[1].timeStamp = 60
    /\ sent[1].url = "https://a.test"

\* The last event was a top-level onDOMContentLoaded event whose URL differs
\* from that of the tab's pending top-level onCommitted event
LoadedWithOtherUrl ==
    /\ TopLevelLoaded
    /\ preceding.committed # Undefined
    /\ preceding.committed.url # lastEvent.details.url

\* C30: a top-level onDOMContentLoaded event whose URL differs from that of the
\* tab's pending onCommitted event sends no update, and when the next event is
\* another top-level onDOMContentLoaded event of the same tab, with no
\* onCommitted event in between, that one sends no update either, even when
\* its URL is the committed one: after committed(A), committed(B),
\* content-loaded(A), content-loaded(B) neither load has sent an update.
C30_MismatchDiscardsEvidence ==
    [][ LoadedWithOtherUrl =>
            /\ sent = <<>>
            /\ ( /\ lastEvent'.type = "onDOMContentLoaded"
                 /\ lastEvent'.details.frameId = TopFrame
                 /\ lastEvent'.details.tabId = lastEvent.details.tabId )
                    => (sent' = <<>>) ]_vars

\* After committed(B) a content-loaded(A) has left the tab, for which a page
\* visit is cached, without cached details and sent nothing
C30_Witness ==
    /\ LoadedWithOtherUrl
    /\ lastEvent.details.url = "https://a.test"
    /\ preceding.committed.url = "https://a.test/"
    /\ sent = <<>>
    /\ committedPending[lastEvent.details.tabId] = Undefined
    /\ lastEvent.details.tabId \notin DOMAIN webNavigationOnCommittedCache
    /\ PageVisitsOf(lastEvent.details.tabId) # <<>>

\* The last event was a top-level onDOMContentLoaded event that found no cached
\* onCommitted details for its tab, or details of another URL
LoadDropped ==
    /\ TopLevelLoaded
    /\ LET tabId == lastEvent.details.tabId
           cached == cachesBefore.webNavigationOnCommittedCache
       IN \/ tabId \notin DOMAIN cached
          \/ cached[tabId].url # lastEvent.details.url

\* Whether the time-based cache holds a page older than its expiry and a more
\* recent page
StaleInTimeCacheBesidesMostRecent ==
    \E i, j \in DOMAIN pageVisitTimeCache :
        /\ now - pageVisitTimeCache[i].pageVisitStartTime > pageVisitTimeCacheExpiry
        /\ pageVisitTimeCache[j].pageVisitStartTime > pageVisitTimeCache[i].pageVisitStartTime

\* C31: a top-level onDOMContentLoaded event that is dropped, for want of
\* cached onCommitted details or because their URL differs, sends no update and
\* leaves openerTabCache, pageVisitTimeCache and pageVisitTabCache as they were.
C31_DroppedLoadChangesNoCache ==
    LoadDropped =>
        /\ sent = <<>>
        /\ openerTabCache = cachesBefore.openerTabCache
        /\ pageVisitTimeCache = cachesBefore.pageVisitTimeCache
        /\ pageVisitTabCache = cachesBefore.pageVisitTabCache

\* A load of another URL than the committed one was dropped in a tab that has
\* opener details, while the time-based cache holds a stale page that a pass
\* would remove
C31_Witness ==
    /\ LoadDropped
    /\ LoadedWithOtherUrl
    /\ lastEvent.details.tabId \in DOMAIN openerTabCache
    /\ StaleInTimeCacheBesidesMostRecent
    /\ sent = <<>>

\* C32: a top-level onHistoryStateUpdated event sends its update, with
\* isHistoryChange = true, and leaves webNavigationOnCommittedCache as it was;
\* so a top-level onDOMContentLoaded event of the URL of the tab's pending
\* onCommitted event, History API changes having come in between or not, sends
\* an update with isHistoryChange = false and the transition of that
\* onCommitted event.
C32_HistoryKeepsCommitted ==
    /\ TopLevelHistory =>
           /\ OneUpdateSent
           /\ sent[1].isHistoryChange
           /\ webNavigationOnCommittedCache = cachesBefore.webNavigationOnCommittedCache
           /\ (preceding.committed # Undefined) =>
                  /\ lastEvent.details.tabId \in DOMAIN webNavigationOnCommittedCache
                  /\ webNavigationOnCommittedCache[lastEvent.details.tabId]
                         = CachedDetails(preceding.committed)
    /\ LoadCompleted =>
           /\ OneUpdateSent
           /\ ~sent[1].isHistoryChange
           /\ sent[1].transitionType = preceding.committed.transitionType
           /\ sent[1].transitionQualifiers = preceding.committed.transitionQualifiers

\* After committed(U) a History API change of another transition type has sent
\* its update, and the tab still has the details of committed(U)
C32_Witness ==
    /\ TopLevelHistory
    /\ OneUpdateSent
    /\ sent[1].isHistoryChange
    /\ preceding.committed # Undefined
    /\ preceding.committed.transitionType # lastEvent.details.transitionType
    /\ webNavigationOnCommittedCache[lastEvent.details.tabId] = CachedDetails(preceding.committed)

\* The tabs that were removed and whose timeout has run
CleanedUp == removedTabs \ AwaitingCleanup

\* C33 as stated: once a removed tab's timeout has run, none of
\* pageVisitTabCache, openerTabCache and webNavigationOnCommittedCache has an
\* entry for the tab.
C33_NoEntryForClosedTab ==
    \A t \in CleanedUp :
        /\ t \notin DOMAIN pageVisitTabCache
        /\ t \notin DOMAIN openerTabCache
        /\ t \notin DOMAIN webNavigationOnCommittedCache

\* C34: after the maintenance pass of a page load's update, every page the tab
\* still holds whose click list was not empty before the pass has a click list
\* that is not empty, with the same greatest timestamp.
C34_LatestClickSurvives ==
    (PageLoadUpdateSent /\ MaintainedTab \in DOMAIN pageVisitTabCache) =>
        \A i \in DOMAIN pageVisitTabCache[MaintainedTab] :
            LET page == pageVisitTabCache[MaintainedTab][i]
                clicksBefore == ObjGet(sent[1].cachedPageVisitsForTab, page.pageId).clickTimeStamps
            IN (clicksBefore # <<>>) =>
                   /\ page.clickTimeStamps # <<>>
                   /\ LatestClick(page.clickTimeStamps) = LatestClick(clicksBefore)

\* A pass has kept a page older than the tab expiry whose clicks were all older
\* than the click expiry, and the page still has its latest click
C34_Witness ==
    /\ PageLoadUpdateSent
    /\ MaintainedTab \in DOMAIN pageVisitTabCache
    /\ \E i \in DOMAIN pageVisitTabCache[MaintainedTab] :
           LET page == pageVisitTabCache[MaintainedTab][i]
               clicksBefore == ObjGet(sent[1].cachedPageVisitsForTab, page.pageId).clickTimeStamps
           IN /\ now - page.pageVisitStartTime > pageVisitTabCacheExpiry
              /\ Len(clicksBefore) = 2
              /\ clicksBefore[1] < clicksBefore[2]
              /\ now - clicksBefore[2] > clickCacheExpiry
              /\ page.clickTimeStamps = << clicksBefore[2] >>

\* C35: however the calls of addListener interleave, the browser event and
\* message handlers are registered at most once, by the one run of
\* initialize() that the first call started.
C35_HandlersRegisteredOnce ==
    /\ registrations <= 1
    /\ (registrations = 1) <=> (initializing = "done")
    /\ (initializing # "none") => initialized

\* A second call of addListener began and stored its record while the first
\* call was still awaiting initialize(), and the handlers are registered once
C35_Witness ==
    /\ Len(addListenerCalls) >= 2
    /\ addListenerCalls[1].first
    /\ addListenerCalls[1].at = "initialize"
    /\ ~addListenerCalls[2].first
    /\ addListenerCalls[2].at = "done"
    /\ registrations = 1

\* C36 as stated: whenever a call of addListener has stored its listener
\* record, the run of initialize() has returned and the handlers are registered.
C36_RecordOnlyAfterInitialized ==
    \A call \in DOMAIN addListenerCalls :
        (addListenerCalls[call].at = "done") =>
            (initializing = "done" /\ registrations >= 1)

====
